---- MODULE Spec2Model ----
(***************************************************************************)
(* Model of the invoice memory layer: RecallEngine.buildContext,           *)
(* CognitiveEngine.apply / calculateConfidence, DecisionEngine.decide /    *)
(* shouldEscalate, the induction engine and the MemoryStore tables.        *)
(*                                                                         *)
(* Units.  Confidences are integers in 1/10000 (0.95 = 9500); amounts are  *)
(* integers in cents (119.00 = 11900); a JavaScript division is a floor    *)
(* division in these units.                                                *)
(***************************************************************************)
EXTENDS Integers, Sequences, FiniteSets, TLC

VARIABLES
    vendor_memories,      \* table vendor_memories, in rowid order
    correction_memories,  \* table correction_memories, in rowid order
    resolution_memories,  \* table resolution_memories: rule id -> record
    processed_invoices,   \* table processed_invoices: fingerprint -> record
    inflight,             \* process() calls suspended at their await
    last,                 \* what the most recent call did and returned
    seen,                 \* history: the (vendor, number, date, total) tuples decided so far
    calls,                \* number of calls made so far
    dec,                  \* DecisionEngine.decide driven directly: its input and result
    cc,                   \* calculateConfidence driven directly: its input and result
    res                   \* recordResolution(s), applyCorrections or apply driven directly: input and result

vars == <<vendor_memories, correction_memories, resolution_memories,
          processed_invoices, inflight, last, seen, calls, dec, cc, res>>

store == <<vendor_memories, correction_memories, resolution_memories, processed_invoices>>

-----------------------------------------------------------------------------
(* Bounds of the model *)

MaxCalls == 3
MaxInflight == 2
MaxDay == 2
MaxApplications == 3
MaxRecords == 102
MaxVaried == 2
MaxResolved == 2

-----------------------------------------------------------------------------
(* JavaScript values *)

Undefined == [t |-> "undefined", n |-> 0, s |-> "", a |-> <<>>]
Null == [t |-> "null", n |-> 0, s |-> "", a |-> <<>>]
NaN == 0 - 1

Num(n) == [t |-> "num", n |-> n, s |-> "", a |-> <<>>]
\* a string; n is what Number(s) gives, in cents (NaN when s is not numeric)
Str(s) == [t |-> "str", n |-> NaN, s |-> s, a |-> <<>>]
NumStr(s, n) == [t |-> "str", n |-> n, s |-> s, a |-> <<>>]
Arr(items) == [t |-> "arr", n |-> 0, s |-> "", a |-> items]

\* !v is false
Truthy(v) ==
    CASE v.t = "undefined" -> FALSE
      [] v.t = "null" -> FALSE
      [] v.t = "num" -> v.n # 0
      [] v.t = "str" -> v.s # ""
      [] OTHER -> TRUE

Abs(x) == IF x < 0 THEN 0 - x ELSE x
Max(x, y) == IF x >= y THEN x ELSE y

RECURSIVE SumOver(_, _)
SumOver(S, g) ==
    IF S = {} THEN 0
    ELSE LET x == CHOOSE y \in S : TRUE IN g[x] + SumOver(S \ {x}, g)

-----------------------------------------------------------------------------
(* CognitiveEngine.calculateConfidence *)

NoResolution == [totalApplications |-> 0 - 1, acceptedCount |-> 0, rejectedCount |-> 0, history |-> <<>>]
NoLastUsed == 0 - 1

\* utils/date.ts daysBetween on whole days
daysBetween(d1, d2) == Abs(d2 - d1)

\* c * Math.pow(0.99, days)
RECURSIVE Decay(_, _)
Decay(c, days) == IF days = 0 THEN c ELSE Decay((c * 99) \div 100, days - 1)

calculateConfidenceAcceptedIgnored(baseConfidence, resolution, lastUsed, now) ==
    IF resolution = NoResolution \/ resolution.totalApplications = 0
    THEN (baseConfidence * 8) \div 10
    ELSE LET memoryConfidence ==
                 ((resolution.rejectedCount + 1) * 10000) \div (resolution.totalApplications + 2)
             finalConfidence == (6 * baseConfidence + 4 * memoryConfidence) \div 10
             decayed == IF lastUsed = NoLastUsed THEN finalConfidence
                        ELSE Decay(finalConfidence, daysBetween(lastUsed, now))
         IN  Max(1000, decayed)

calculateConfidenceUnprovenSmoothed(baseConfidence, resolution, lastUsed, now) ==
    LET counted == IF resolution = NoResolution
                   THEN [totalApplications |-> 0, acceptedCount |-> 0]
                   ELSE resolution
        memoryConfidence ==
            ((counted.acceptedCount + 1) * 10000) \div (counted.totalApplications + 2)
        finalConfidence == (6 * baseConfidence + 4 * memoryConfidence) \div 10
        decayed == IF lastUsed = NoLastUsed THEN finalConfidence
                   ELSE Decay(finalConfidence, daysBetween(lastUsed, now))
    IN  Max(1000, decayed)

calculateConfidence(baseConfidence, resolution, lastUsed, now) ==
    IF resolution = NoResolution \/ resolution.totalApplications = 0
    THEN (baseConfidence * 8) \div 10
    ELSE LET memoryConfidence ==
                 ((resolution.acceptedCount + 1) * 10000) \div (resolution.totalApplications + 2)
             finalConfidence == (6 * baseConfidence + 4 * memoryConfidence) \div 10
             decayed == IF lastUsed = NoLastUsed THEN finalConfidence
                        ELSE Decay(finalConfidence, daysBetween(lastUsed, now))
         IN  Max(1000, decayed)

-----------------------------------------------------------------------------
(* Records *)

\* the fields decide() fills from the invoice, in its order
fields == <<"date", "serviceDate", "dueDate", "totalAmount", "taxAmount",
            "netAmount", "currency", "lineItems", "paymentTerms", "poNumber">>
FieldSet == {fields[i] : i \in 1..Len(fields)}
criticalFields == <<"totalAmount", "date", "vendor">>

StringFields == {"date", "serviceDate", "dueDate", "currency", "paymentTerms", "poNumber"}
NumberFields == {"totalAmount", "taxAmount", "netAmount"}

NoVendorMemory == [none |-> TRUE]
NoConfidence == 0 - 1

AuditEntry(step, action, field, confidence) ==
    [step |-> step, action |-> action, field |-> field, confidence |-> confidence]

\* item.amount || 0
ItemAmount(item) == IF Truthy(item.amount) THEN item.amount.n ELSE 0

RECURSIVE lineItemSum(_)
lineItemSum(items) ==
    IF items = <<>> THEN 0 ELSE ItemAmount(Head(items)) + lineItemSum(Tail(items))

-----------------------------------------------------------------------------
(* MemoryStore: duplicate detection *)

generateInvoiceFingerprintWithId(invoice) ==
    <<invoice.vendor.s, invoice.id.s,
      IF Truthy(invoice.date) THEN invoice.date.s ELSE "",
      IF Truthy(invoice.totalAmount) THEN invoice.totalAmount.n ELSE 0>>

\* `${vendor}|${invoiceNumber}|${date || ''}|${totalAmount || 0}`, hashed
generateInvoiceFingerprint(invoice) ==
    <<invoice.vendor.s, invoice.invoiceNumber.s,
      IF Truthy(invoice.date) THEN invoice.date.s ELSE "",
      IF Truthy(invoice.totalAmount) THEN invoice.totalAmount.n ELSE 0>>

isDuplicateNever(processed, fingerprint) == FALSE

\* SELECT fingerprint FROM processed_invoices WHERE fingerprint = ?
isDuplicate(processed, fingerprint) == fingerprint \in DOMAIN processed

\* INSERT OR REPLACE INTO processed_invoices
recordProcessedInvoice(processed, fingerprint, invoice) ==
    [fp \in DOMAIN processed \cup {fingerprint} |->
        IF fp = fingerprint
        THEN [invoiceId |-> invoice.id.s,
              vendor |-> invoice.vendor.s,
              invoiceNumber |-> invoice.invoiceNumber.s,
              totalAmount |-> IF Truthy(invoice.totalAmount) THEN invoice.totalAmount ELSE Null]
        ELSE processed[fp]]

-----------------------------------------------------------------------------
(* DecisionEngine *)

DUPLICATE == "Duplicate invoice detected"
NEW_VENDOR == "New vendor: no existing memory found"
LOW_OVERALL == "Overall confidence below threshold"
MISMATCH == "Total amount mismatch"
AUTO == "High confidence automation"
Critical(field) == "Critical field is missing or has low confidence: " \o field

\* output after "Apply proposals" and "Fill remaining fields"; a key that is
\* not in the object reads as Undefined
decideOutput(invoice, proposals) ==
    [k \in {"invoiceId", "vendor", "invoiceNumber"} \cup FieldSet \cup DOMAIN proposals |->
        IF k \in DOMAIN proposals THEN proposals[k].value
        ELSE IF k = "invoiceId" THEN invoice.id
        ELSE IF k = "vendor" THEN invoice.vendor
        ELSE IF k = "invoiceNumber" THEN invoice.invoiceNumber
        ELSE invoice[k]]

\* the confidences array, as field -> pushed value
decideConfidences(invoice, proposals) ==
    [k \in DOMAIN proposals \cup {f \in FieldSet : invoice[f] # Undefined} |->
        IF k \in DOMAIN proposals THEN proposals[k].confidence
        ELSE IF invoice[k] = Null THEN 0
        ELSE 7000]

overallConfidenceAsSum(confidences) ==
    SumOver(DOMAIN confidences, confidences)

overallConfidence(confidences) ==
    IF Cardinality(DOMAIN confidences) > 0
    THEN SumOver(DOMAIN confidences, confidences) \div Cardinality(DOMAIN confidences)
    ELSE 0

\* Rule 3 for one field
CriticalFails(field, output, proposals) ==
    \/ ~Truthy(output[field])
    \/ (field \in DOMAIN proposals /\ proposals[field].confidence < 9000)

\* Rule 5
AmountMismatchNoGuard(output) ==
    /\ Truthy(output["lineItems"])
    /\ Len(output["lineItems"].a) > 0
    /\ Truthy(output["totalAmount"])
    /\ output["totalAmount"].n # NaN
    /\ Abs(output["totalAmount"].n - lineItemSum(output["lineItems"].a)) > 1

AmountMismatch(output) ==
    /\ Truthy(output["lineItems"])
    /\ Len(output["lineItems"].a) > 0
    /\ Truthy(output["totalAmount"])
    /\ output["totalAmount"].n # NaN
    /\ Abs(output["totalAmount"].n - lineItemSum(output["lineItems"].a)) > 1
    /\ lineItemSum(output["lineItems"].a) > 0

shouldEscalateNewVendorFirst(context, output, overall, proposals, duplicate) ==
    IF context.vendorMemory = NoVendorMemory THEN [required |-> TRUE, reasoning |-> NEW_VENDOR]
    ELSE IF duplicate THEN [required |-> TRUE, reasoning |-> DUPLICATE]
    ELSE IF \E i \in 1..Len(criticalFields) : CriticalFails(criticalFields[i], output, proposals)
    THEN LET i == CHOOSE j \in 1..Len(criticalFields) :
                      /\ CriticalFails(criticalFields[j], output, proposals)
                      /\ \A h \in 1..(j - 1) : ~CriticalFails(criticalFields[h], output, proposals)
         IN  [required |-> TRUE, reasoning |-> Critical(criticalFields[i])]
    ELSE IF overall < 8000 THEN [required |-> TRUE, reasoning |-> LOW_OVERALL]
    ELSE IF AmountMismatch(output) THEN [required |-> TRUE, reasoning |-> MISMATCH]
    ELSE [required |-> FALSE, reasoning |-> AUTO]

shouldEscalate(context, output, overall, proposals, duplicate) ==
    IF duplicate THEN [required |-> TRUE, reasoning |-> DUPLICATE]
    ELSE IF context.vendorMemory = NoVendorMemory THEN [required |-> TRUE, reasoning |-> NEW_VENDOR]
    ELSE IF \E i \in 1..Len(criticalFields) : CriticalFails(criticalFields[i], output, proposals)
    THEN LET i == CHOOSE j \in 1..Len(criticalFields) :
                      /\ CriticalFails(criticalFields[j], output, proposals)
                      /\ \A h \in 1..(j - 1) : ~CriticalFails(criticalFields[h], output, proposals)
         IN  [required |-> TRUE, reasoning |-> Critical(criticalFields[i])]
    ELSE IF overall < 8000 THEN [required |-> TRUE, reasoning |-> LOW_OVERALL]
    ELSE IF AmountMismatch(output) THEN [required |-> TRUE, reasoning |-> MISMATCH]
    ELSE [required |-> FALSE, reasoning |-> AUTO]

\* "Record processing": the processed_invoices table after decide()
decideRecordUnlessEscalated(context, proposals, processed) ==
    LET invoice == context.invoice
        fingerprint == generateInvoiceFingerprint(invoice)
        review == shouldEscalate(context, decideOutput(invoice, proposals),
                                 overallConfidence(decideConfidences(invoice, proposals)),
                                 proposals, isDuplicate(processed, fingerprint))
    IN  IF ~review.required
        THEN recordProcessedInvoice(processed, fingerprint, invoice)
        ELSE processed

decideRecord(context, proposals, processed) ==
    LET fingerprint == generateInvoiceFingerprint(context.invoice)
    IN  IF ~isDuplicate(processed, fingerprint)
        THEN recordProcessedInvoice(processed, fingerprint, context.invoice)
        ELSE processed

\* the DECIDE entry, which alone of the entries of the model keeps its reasoning
DecideEntry(review, overall) ==
    [step |-> "DECIDE", action |-> IF review.required THEN "ESCALATE" ELSE "AUTO_APPROVE",
     field |-> "", confidence |-> overall, reasoning |-> review.reasoning]

decideAuditTrailEntryFirst(auditTrail, review, overall) ==
    <<DecideEntry(review, overall)>> \o auditTrail

\* contract.auditTrail.push({ step: 'DECIDE', ... })
decideAuditTrail(auditTrail, review, overall) ==
    Append(auditTrail, DecideEntry(review, overall))

\* the OutputContract decide() returns
decide(context, proposals, processed) ==
    LET invoice == context.invoice
        output == decideOutput(invoice, proposals)
        overall == overallConfidence(decideConfidences(invoice, proposals))
        fingerprint == generateInvoiceFingerprint(invoice)
        duplicate == isDuplicate(processed, fingerprint)
        review == shouldEscalate(context, output, overall, proposals, duplicate)
    IN  [output |-> output,
         requiresHumanReview |-> review.required,
         reasoning |-> review.reasoning,
         confidence |-> overall,
         auditTrail |-> decideAuditTrail(context.auditTrail, review, overall)]

-----------------------------------------------------------------------------
(* Raw text.  A text is a sequence of lines "<label>: <value>"; a regular     *)
(* expression "<label>[:\s]*(<shape>)" is unanchored and case-insensitive, so *)
(* it matches a line whose label ends with <label>.                           *)

TextLine(label, kind, s, n) == [label |-> label, kind |-> kind, s |-> s, n |-> n]
DateLine(label, s) == TextLine(label, "date", s, 0)
NumLine(label, s, n) == TextLine(label, "num", s, n)
MarkLine(s) == TextLine("", "mark", s, 0)

\* the labels a line's label ends with, ignoring case
LabelSuffixes(label) ==
    CASE label = "Leistungsdatum" -> {"Leistungsdatum", "Datum"}
      [] label = "Rechnungsdatum" -> {"Rechnungsdatum", "Datum"}
      [] label = "Datum" -> {"Datum"}
      [] label = "Gesamt" -> {"Gesamt"}
      [] label = "Betrag" -> {"Betrag"}
      [] OTHER -> {}

\* the dates of the model in their three written forms
DateTable ==
    {[iso |-> "2023-12-01", de |-> "01.12.2023", de2 |-> "01.12.23"],
     [iso |-> "2023-12-15", de |-> "15.12.2023", de2 |-> "15.12.23"],
     [iso |-> "2024-01-15", de |-> "15.01.2024", de2 |-> "15.01.24"],
     [iso |-> "2024-01-20", de |-> "20.01.2024", de2 |-> "20.01.24"],
     [iso |-> "2024-01-10", de |-> "10.01.2024", de2 |-> "10.01.24"],
     [iso |-> "2024-02-15", de |-> "15.02.2024", de2 |-> "15.02.24"],
     [iso |-> "2024-02-10", de |-> "10.02.2024", de2 |-> "10.02.24"]}

DateShape(s) ==
    IF \E d \in DateTable : d.iso = s THEN "ISO"
    ELSE IF \E d \in DateTable : d.de = s THEN "DE"
    ELSE IF \E d \in DateTable : d.de2 = s THEN "DE2"
    ELSE "none"

\* /mwst\.?\s*inkl|gross|brutto|tax\s*incl/i
MatchesInclusiveMarker(s) == s \in {"MwSt. inkl.", "Brutto"}

HasInclusiveMarker(rawText) ==
    \E i \in 1..Len(rawText) : rawText[i].kind = "mark" /\ MatchesInclusiveMarker(rawText[i].s)

FirstIndex(rawText, Test(_)) ==
    IF \E i \in 1..Len(rawText) : Test(rawText[i])
    THEN CHOOSE i \in 1..Len(rawText) :
             Test(rawText[i]) /\ \A j \in 1..(i - 1) : ~Test(rawText[j])
    ELSE 0

-----------------------------------------------------------------------------
(* core/logic/engine.ts: rules and their evaluation *)

Bool(b) == [t |-> "bool", n |-> IF b THEN 1 ELSE 0, s |-> "", a |-> <<>>]
IsTrue(v) == IF v.t = "bool" THEN v.n = 1 ELSE Truthy(v)

\* { regexExtract: [pattern, {var: 'rawText'}, 1] }
createRegexRule(label, shape) == [op |-> "regexExtract", label |-> label, shape |-> shape]

\* createArithmeticRule(formula, sourceField)
createArithmeticRule(formula, sourceField) == [op |-> formula, var |-> sourceField]

\* { and: [ {'==': [{var: zero}, 0]}, {'>': [{var: positive}, 0]}, {regexTest: ...} ] }
createTrigger(zero, positive, marker) ==
    [op |-> "and", zero |-> zero, positive |-> positive, marker |-> marker]

\* what {var: name} contributes to an arithmetic operator: a missing value is null, and null counts as 0
VarNumber(invoice, name) ==
    IF name \in DOMAIN invoice /\ invoice[name].t = "num" THEN invoice[name].n ELSE 0

regexExtract(rule, rawText) ==
    LET Hit(line) ==
            IF rule.shape = "date"
            THEN line.kind = "date" /\ rule.label \in LabelSuffixes(line.label)
            ELSE IF rule.shape = "number"
            THEN line.kind = "num" /\ rule.label \in LabelSuffixes(line.label)
            ELSE line.kind = "date" /\ DateShape(line.s) = rule.shape
        i == FirstIndex(rawText, Hit)
    IN  IF rawText = <<>> \/ i = 0 THEN Null
        ELSE IF rawText[i].kind = "num" THEN NumStr(rawText[i].s, rawText[i].n)
        ELSE Str(rawText[i].s)

\* description.split(/\s+/): the words of the descriptions of the model
Words(description) ==
    CASE description = "Seefracht Hamburg-NY" -> <<"Seefracht", "Hamburg-NY">>
      [] description = "Seefracht Rotterdam-Boston" -> <<"Seefracht", "Rotterdam-Boston">>
      [] description = "Zoll und SEEFRACHT" -> <<"Zoll", "und", "SEEFRACHT">>
      [] description = "" -> <<>>
      [] OTHER -> <<description>>

\* word.toLowerCase()
toLowerCase(word) ==
    CASE word \in {"Seefracht", "SEEFRACHT"} -> "seefracht"
      [] word = "Hamburg-NY" -> "hamburg-ny"
      [] word = "Rotterdam-Boston" -> "rotterdam-boston"
      [] word = "Zoll" -> "zoll"
      [] word = "Luftfracht" -> "luftfracht"
      [] OTHER -> word

\* description.toLowerCase(), as its sequence of words
Normalized(description) ==
    [i \in 1..Len(Words(description)) |-> toLowerCase(Words(description)[i])]

\* text.includes(key), for texts and keys that are sequences of whole words
Includes(text, key) ==
    \E i \in 0..(Len(text) - Len(key)) : \A j \in 1..Len(key) : text[i + j] = key[j]

\* the path of the sku of line item i in a patch, without its leading slash
SkuPath(i) == "lineItems/" \o ToString(i) \o "/sku"

\* createMapRule(mapping, sourceField); mapping is the list of its entries in insertion order
createMapRule(mapping, sourceField) ==
    [op |-> "mapDescription", var |-> sourceField, mapping |-> mapping]

\* {var: name}: the name is split at dots only, and a missing property gives null
VarValue(invoice, name) ==
    IF name \in DOMAIN invoice /\ invoice[name] # Undefined THEN invoice[name] ELSE Null

\* the mapDescription operation: an exact match first, then the first key the description includes
mapDescription(description, mapping) ==
    LET normalized == Normalized(description.s)
        Exact(e) == normalized = e.key
        Partial(e) == Includes(normalized, e.key)
    IN  IF ~Truthy(description) THEN Null
        ELSE IF FirstIndex(mapping, Exact) # 0 THEN Str(mapping[FirstIndex(mapping, Exact)].value)
        ELSE IF FirstIndex(mapping, Partial) # 0 THEN Str(mapping[FirstIndex(mapping, Partial)].value)
        ELSE Null

\* jsonLogic.apply(rule, data), null when it throws
executeRule(rule, invoice) ==
    CASE rule.op = "regexExtract" -> regexExtract(rule, invoice.rawText)
      [] rule.op = "mapDescription" ->
             \* a mapping with one key is itself read as a rule with an unknown operation
             IF Len(rule.mapping) = 1 THEN Null
             ELSE mapDescription(VarValue(invoice, rule.var), rule.mapping)
      [] rule.op = "inclusive_vat_19" ->
             Num(VarNumber(invoice, rule.var) - (VarNumber(invoice, rule.var) * 100) \div 119)
      [] rule.op = "exclusive_vat_19" ->
             Num((VarNumber(invoice, rule.var) * 19) \div 100)
      [] rule.op = "net_from_gross_19" ->
             Num((VarNumber(invoice, rule.var) * 100) \div 119)
      [] rule.op = "-" ->
             Num(VarNumber(invoice, rule.var) - VarNumber(invoice, rule.var2))
      [] rule.op = "var" -> VarValue(invoice, rule.var)
      [] rule.op = "and" ->
             Bool(/\ invoice[rule.zero].t = "num" /\ invoice[rule.zero].n = 0
                  /\ VarNumber(invoice, rule.positive) > 0
                  /\ (rule.marker => HasInclusiveMarker(invoice.rawText)))
      [] OTHER -> Null

-----------------------------------------------------------------------------
(* Invoices *)

Invoice(id, vendor, invoiceNumber, date, totalAmount, taxAmount, netAmount, lineItems, rawText) ==
    [id |-> Str(id), vendor |-> Str(vendor), invoiceNumber |-> Str(invoiceNumber),
     date |-> date, serviceDate |-> Undefined, dueDate |-> Undefined,
     currency |-> Undefined, netAmount |-> netAmount, taxAmount |-> taxAmount,
     totalAmount |-> totalAmount, lineItems |-> lineItems,
     paymentTerms |-> Undefined, poNumber |-> Undefined, rawText |-> rawText]

LineItem(description, amount) ==
    [description |-> Str(description), amount |-> amount, sku |-> Undefined]

Context(invoice, vendorMemory, corrections, resolutions, auditTrail) ==
    [invoice |-> invoice, vendorMemory |-> vendorMemory,
     correctionMemories |-> corrections, resolutionMemories |-> resolutions,
     auditTrail |-> auditTrail]

\* name.toLowerCase()
Lower(name) ==
    CASE name = "Supplier GmbH" -> "supplier gmbh"
      [] name = "Parts AG" -> "parts ag"
      [] name = "Freight & Co" -> "freight & co"
      [] OTHER -> name

\* utils/fuzzy.ts generateFingerprints: the name, its normal form, and the
\* normal form without a company suffix
generateFingerprints(name) ==
    CASE name = "Supplier GmbH" -> <<"Supplier GmbH", "supplier gmbh", "supplier">>
      [] name = "Parts AG" -> <<"Parts AG", "parts ag", "parts">>
      [] name = "Freight & Co" -> <<"Freight & Co", "freight  co", "freight">>
      [] OTHER -> <<name>>

VendorMemory(id, vendorName, patterns) ==
    [id |-> id, vendorName |-> vendorName, fingerprints |-> generateFingerprints(vendorName),
     defaults |-> <<>>, patterns |-> patterns]

FieldConfidence(value, confidence, source, ruleId) ==
    [value |-> value, confidence |-> confidence, source |-> source, ruleId |-> ruleId]

VendorPattern(ruleType, logic, confidence) ==
    [ruleType |-> ruleType, logic |-> logic, confidence |-> confidence, lastUsed |-> NoLastUsed]

CorrectionMemory(id, trigger, action, confidence) ==
    [id |-> id, triggerCondition |-> trigger, action |-> action,
     confidence |-> confidence, lastUsed |-> NoLastUsed]

SetKey(f, k, v) == [x \in DOMAIN f \cup {k} |-> IF x = k THEN v ELSE f[x]]

\* the keys of an object, in the order the model iterates them
KeyOrder == <<"date", "serviceDate", "dueDate", "currency", "taxAmount", "netAmount",
              "totalAmount", "paymentTerms", "poNumber", SkuPath(0), SkuPath(1)>>

-----------------------------------------------------------------------------
(* RecallEngine *)

\* utils/fuzzy.ts fuzzyMatch over name and fingerprints: the score of the
\* search library in 1/1000, 0 for texts equal up to case, no hit otherwise
FuzzyScore(query, memory) == IF Lower(query) = Lower(memory.vendorName) THEN 0 ELSE 1000

\* store.findVendorByName: the first row with that name
findVendorByName(vendors, name) ==
    IF \E i \in 1..Len(vendors) : vendors[i].vendorName = name
    THEN vendors[CHOOSE i \in 1..Len(vendors) :
                     /\ vendors[i].vendorName = name
                     /\ \A j \in 1..(i - 1) : vendors[j].vendorName # name]
    ELSE NoVendorMemory

\* RecallEngine.findVendorMemory: exact name, else the best match under 0.4
findVendorMemory(vendors, name) ==
    IF findVendorByName(vendors, name) # NoVendorMemory THEN findVendorByName(vendors, name)
    ELSE IF \E i \in 1..Len(vendors) : FuzzyScore(name, vendors[i]) <= 400
    THEN vendors[CHOOSE i \in 1..Len(vendors) :
                     /\ FuzzyScore(name, vendors[i]) <= 400
                     /\ \A j \in 1..Len(vendors) :
                            \/ FuzzyScore(name, vendors[j]) > FuzzyScore(name, vendors[i])
                            \/ (FuzzyScore(name, vendors[j]) = FuzzyScore(name, vendors[i]) /\ j >= i)]
    ELSE NoVendorMemory

\* store.getResolutionMemory: the row, or the all-zero default
getResolutionMemory(resolutions, ruleId) ==
    IF ruleId \in DOMAIN resolutions THEN resolutions[ruleId]
    ELSE [totalApplications |-> 0, acceptedCount |-> 0, rejectedCount |-> 0, history |-> <<>>]

PatternId(memory, field) == memory.id \o "-" \o field

buildContextAlwaysLoaded(invoice, vendors, corrections, resolutions) ==
    LET vendorMemory == findVendorMemory(vendors, invoice.vendor.s)
    IN  Context(invoice, vendorMemory, corrections,
                IF vendorMemory = NoVendorMemory THEN <<>>
                ELSE [id \in {PatternId(vendorMemory, f) : f \in DOMAIN vendorMemory.patterns} |->
                         getResolutionMemory(resolutions, id)],
                <<IF vendorMemory = NoVendorMemory
                  THEN AuditEntry("RECALL", "NEW_VENDOR", "", 0)
                  ELSE AuditEntry("RECALL", "VENDOR_MATCHED", "", 9500)>>
                \o <<AuditEntry("RECALL", "CORRECTIONS_LOADED", "", NoConfidence)>>)

buildContextLoadsCorrectionRows(invoice, vendors, corrections, resolutions) ==
    LET vendorMemory == findVendorMemory(vendors, invoice.vendor.s)
        ids == (IF vendorMemory = NoVendorMemory THEN {}
                ELSE {PatternId(vendorMemory, f) : f \in DOMAIN vendorMemory.patterns})
               \cup {corrections[i].id : i \in 1..Len(corrections)}
    IN  Context(invoice, vendorMemory, corrections,
                [id \in ids |-> getResolutionMemory(resolutions, id)],
                <<IF vendorMemory = NoVendorMemory
                  THEN AuditEntry("RECALL", "NEW_VENDOR", "", 0)
                  ELSE AuditEntry("RECALL", "VENDOR_MATCHED", "", 9500)>>
                \o (IF Len(corrections) > 0
                    THEN <<AuditEntry("RECALL", "CORRECTIONS_LOADED", "", NoConfidence)>>
                    ELSE <<>>))

buildContext(invoice, vendors, corrections, resolutions) ==
    LET vendorMemory == findVendorMemory(vendors, invoice.vendor.s)
    IN  Context(invoice, vendorMemory, corrections,
                IF vendorMemory = NoVendorMemory THEN <<>>
                ELSE [id \in {PatternId(vendorMemory, f) : f \in DOMAIN vendorMemory.patterns} |->
                         getResolutionMemory(resolutions, id)],
                <<IF vendorMemory = NoVendorMemory
                  THEN AuditEntry("RECALL", "NEW_VENDOR", "", 0)
                  ELSE AuditEntry("RECALL", "VENDOR_MATCHED", "", 9500)>>
                \o (IF Len(corrections) > 0
                    THEN <<AuditEntry("RECALL", "CORRECTIONS_LOADED", "", NoConfidence)>>
                    ELSE <<>>))

-----------------------------------------------------------------------------
(* CognitiveEngine.apply *)

\* the words 'tax', 'net' and 'total' that a property name contains
NameWords(name) ==
    CASE name = "taxAmount" -> {"tax"}
      [] name = "netAmount" -> {"net"}
      [] name = "totalAmount" -> {"total"}
      [] OTHER -> {}

\* the canonical field names JSON.stringify(action) contains: those of the
\* property names the action reads, its operators and numbers holding none
ActionWords(action) ==
    NameWords(action.var) \cup (IF "var2" \in DOMAIN action THEN NameWords(action.var2) ELSE {})

extractFieldFromActionTotalFirst(action) ==
    IF "total" \in ActionWords(action) THEN "totalAmount"
    ELSE IF "tax" \in ActionWords(action) THEN "taxAmount"
    ELSE IF "net" \in ActionWords(action) THEN "netAmount"
    ELSE ""

extractFieldFromAction(action) ==
    IF "tax" \in ActionWords(action) THEN "taxAmount"
    ELSE IF "net" \in ActionWords(action) THEN "netAmount"
    ELSE IF "total" \in ActionWords(action) THEN "totalAmount"
    ELSE ""

ContextResolution(context, ruleId) ==
    IF ruleId \in DOMAIN context.resolutionMemories
    THEN context.resolutionMemories[ruleId]
    ELSE NoResolution

\* Step 1 for one pattern; acc is [proposals, auditTrail]
applyPattern(context, field, acc) ==
    LET memory == context.vendorMemory
        pattern == memory.patterns[field]
        result == executeRule(pattern.logic, context.invoice)
        confidence == calculateConfidence(pattern.confidence,
                                          ContextResolution(context, PatternId(memory, field)),
                                          pattern.lastUsed, 0)
    IN  IF result # Null /\ result # Undefined
        THEN [proposals |-> SetKey(acc.proposals, field,
                                   FieldConfidence(result, confidence, "VENDOR_PATTERN",
                                                   PatternId(memory, field))),
              auditTrail |-> Append(acc.auditTrail,
                                    AuditEntry("APPLY", "VENDOR_PATTERN", field, confidence))]
        ELSE acc

RECURSIVE applyPatterns(_, _, _)
applyPatterns(context, order, acc) ==
    IF order = <<>> THEN acc
    ELSE applyPatterns(context, Tail(order),
                       IF Head(order) \in DOMAIN context.vendorMemory.patterns
                       THEN applyPattern(context, Head(order), acc)
                       ELSE acc)

\* Step 2 for one default
applyDefault(context, field, acc) ==
    IF field \notin DOMAIN acc.proposals /\ Truthy(context.vendorMemory.defaults[field])
    THEN [proposals |-> SetKey(acc.proposals, field,
                               FieldConfidence(context.vendorMemory.defaults[field], 9000,
                                               "VENDOR_PATTERN", "")),
          auditTrail |-> Append(acc.auditTrail,
                                AuditEntry("APPLY", "VENDOR_DEFAULT", field, 9000))]
    ELSE acc

RECURSIVE applyDefaults(_, _, _)
applyDefaults(context, order, acc) ==
    IF order = <<>> THEN acc
    ELSE applyDefaults(context, Tail(order),
                       IF Head(order) \in DOMAIN context.vendorMemory.defaults
                       THEN applyDefault(context, Head(order), acc)
                       ELSE acc)

\* the test that lets a correction rule write its field
MayWrite(acc, field, correction, confidence) ==
    field \notin DOMAIN acc.proposals \/ acc.proposals[field].confidence < correction.confidence

\* Step 3 for one correction rule
applyCorrection(context, correction, acc) ==
    LET triggered == IsTrue(executeRule(correction.triggerCondition, context.invoice))
        result == executeRule(correction.action, context.invoice)
        field == extractFieldFromAction(correction.action)
        confidence == calculateConfidence(correction.confidence,
                                          ContextResolution(context, correction.id),
                                          correction.lastUsed, 0)
    IN  IF /\ triggered
           /\ result # Null /\ result # Undefined
           /\ field # ""
           /\ MayWrite(acc, field, correction, confidence)
        THEN [proposals |-> SetKey(acc.proposals, field,
                                   FieldConfidence(result, confidence, "CORRECTION_RULE",
                                                   correction.id)),
              auditTrail |-> Append(acc.auditTrail,
                                    AuditEntry("APPLY", "CORRECTION_RULE", field, confidence))]
        ELSE acc

RECURSIVE applyCorrections(_, _, _)
applyCorrections(context, corrections, acc) ==
    IF corrections = <<>> THEN acc
    ELSE applyCorrections(context, Tail(corrections),
                          applyCorrection(context, Head(corrections), acc))

\* apply(context): the proposals and the audit trail it leaves
apply(context) ==
    LET start == [proposals |-> <<>>, auditTrail |-> context.auditTrail]
        step1 == IF context.vendorMemory # NoVendorMemory
                 THEN applyPatterns(context, KeyOrder, start)
                 ELSE start
        step2 == IF context.vendorMemory # NoVendorMemory
                 THEN applyDefaults(context, KeyOrder, step1)
                 ELSE step1
    IN  applyCorrections(context, context.correctionMemories, step2)

-----------------------------------------------------------------------------
(* core/logic/induction.ts *)

isDateField(field) == field \in {"date", "serviceDate", "dueDate"}
isNumericField(field) == field \in {"taxAmount", "netAmount", "totalAmount"}

generateDateVariants(isoDate) ==
    IF \E d \in DateTable : d.iso = isoDate
    THEN LET d == CHOOSE e \in DateTable : e.iso = isoDate IN <<isoDate, d.de, d.de2>>
    ELSE <<isoDate>>

generateFieldLabels(field) ==
    CASE field = "totalAmount" -> <<"totalAmount", "total Amount", "Gesamt", "Total", "Summe">>
      [] field = "taxAmount" -> <<"taxAmount", "tax Amount", "MwSt", "Tax", "VAT">>
      [] field = "netAmount" -> <<"netAmount", "net Amount", "Netto", "Net">>
      [] OTHER -> <<field, field>>

DateLabels == <<"Leistungsdatum", "Service Date", "Datum", "Date", "Rechnungsdatum", "Invoice Date">>

NoRule == [none |-> TRUE]

\* new RegExp(`${label}[:\s]*${variant}`, 'i').test(rawText)
LabelledDate(rawText, label, variant) ==
    \E i \in 1..Len(rawText) :
        /\ rawText[i].kind = "date"
        /\ label \in LabelSuffixes(rawText[i].label)
        /\ rawText[i].s = variant

TextIncludesDate(rawText, variant) ==
    \E i \in 1..Len(rawText) : rawText[i].kind = "date" /\ rawText[i].s = variant

induceRegexForDate(dateValue, rawText) ==
    LET variants == generateDateVariants(dateValue.s)
        Hits == {p \in (1..Len(variants)) \X (1..Len(DateLabels)) :
                    LabelledDate(rawText, DateLabels[p[2]], variants[p[1]])}
        Found == {v \in 1..Len(variants) : TextIncludesDate(rawText, variants[v])}
    IN  IF rawText = <<>> \/ ~Truthy(dateValue) THEN NoRule
        ELSE IF Hits # {}
        THEN LET first == CHOOSE p \in Hits :
                              \A q \in Hits : p[1] < q[1] \/ (p[1] = q[1] /\ p[2] <= q[2])
             IN  VendorPattern("REGEX", createRegexRule(DateLabels[first[2]], "date"), 9500)
        ELSE IF Found # {}
        THEN LET v == CHOOSE x \in Found : \A y \in Found : x <= y
             IN  VendorPattern("REGEX", createRegexRule("", DateShape(variants[v])), 7000)
        ELSE NoRule

\* rawText.includes(numValue.toString()), on the amounts written in the text
TextIncludesNumber(rawText, n) ==
    \E i \in 1..Len(rawText) : rawText[i].kind = "num" /\ rawText[i].n = n

LabelledNumber(rawText, label) ==
    \E i \in 1..Len(rawText) : rawText[i].kind = "num" /\ label \in LabelSuffixes(rawText[i].label)

induceRegexForNumber(field, numValue, rawText) ==
    LET labels == generateFieldLabels(field)
        Hits == {l \in 1..Len(labels) : LabelledNumber(rawText, labels[l])}
    IN  IF rawText = <<>> \/ ~TextIncludesNumber(rawText, numValue.n) \/ Hits = {} THEN NoRule
        ELSE VendorPattern("REGEX",
                           createRegexRule(labels[CHOOSE l \in Hits : \A m \in Hits : l <= m],
                                           "number"),
                           8500)

\* Math.abs(calculated - correctedValue) < 0.01, both sides in 1/100 cent
Fits(calculated, correctedValue) == Abs(calculated - correctedValue.n * 100) < 100

\* amount / 1.19 in 1/100 cent, for an amount in cents
Gross119(amount) == (amount \div 119) * 10000 + ((amount % 119) * 10000) \div 119

induceArithmeticFormula(field, correctedValue, invoice) ==
    LET total == invoice.totalAmount
        net == invoice.netAmount
        tax == invoice.taxAmount
    IN  IF /\ field = "taxAmount" /\ Truthy(total) /\ ~Truthy(tax)
           /\ Fits(total.n * 100 - Gross119(total.n), correctedValue)
           /\ HasInclusiveMarker(invoice.rawText)
        THEN [formula |-> "inclusive_vat_19",
              triggerCondition |-> createTrigger("taxAmount", "totalAmount", TRUE),
              action |-> createArithmeticRule("inclusive_vat_19", "totalAmount"),
              confidence |-> 9500]
        ELSE IF /\ field = "taxAmount" /\ Truthy(net) /\ ~Truthy(tax)
                /\ Fits(net.n * 19, correctedValue)
        THEN [formula |-> "exclusive_vat_19",
              triggerCondition |-> createTrigger("taxAmount", "netAmount", FALSE),
              action |-> createArithmeticRule("exclusive_vat_19", "netAmount"),
              confidence |-> 9000]
        ELSE IF /\ field = "netAmount" /\ Truthy(total) /\ ~Truthy(net)
                /\ Fits(Gross119(total.n), correctedValue)
        THEN [formula |-> "net_from_gross_19",
              triggerCondition |-> createTrigger("netAmount", "totalAmount", FALSE),
              action |-> createArithmeticRule("net_from_gross_19", "totalAmount"),
              confidence |-> 9000]
        ELSE NoRule

\* the index of the line item that a sku path names, 0 when there is none
SkuItem(invoice, path) ==
    IF invoice.lineItems.t = "arr" /\ \E i \in 1..Len(invoice.lineItems.a) : path = SkuPath(i - 1)
    THEN CHOOSE i \in 1..Len(invoice.lineItems.a) : path = SkuPath(i - 1)
    ELSE 0

\* getFieldValue(obj, path), for the paths of the model
getFieldValue(obj, path) ==
    IF path \in DOMAIN obj THEN obj[path]
    ELSE IF SkuItem(obj, path) # 0 THEN obj.lineItems.a[SkuItem(obj, path)].sku
    ELSE Undefined

\* getDescriptionForSku(field, invoice): lineItem?.description || null
getDescriptionForSku(field, invoice) ==
    IF SkuItem(invoice, field) # 0
       /\ Truthy(invoice.lineItems.a[SkuItem(invoice, field)].description)
    THEN invoice.lineItems.a[SkuItem(invoice, field)].description
    ELSE Null

RECURSIVE TokenEntries(_, _)
TokenEntries(tokens, sku) ==
    IF tokens = <<>> THEN <<>>
    ELSE (IF Len(Head(tokens)) > 3 THEN <<[key |-> <<Head(tokens)>>, value |-> sku]>> ELSE <<>>)
         \o TokenEntries(Tail(tokens), sku)

\* the entries of an object in insertion order: a key set again keeps its place
RECURSIVE ObjectEntries(_)
ObjectEntries(entries) ==
    IF entries = <<>> THEN <<>>
    ELSE LET rest == ObjectEntries(SubSeq(entries, 1, Len(entries) - 1))
             e == entries[Len(entries)]
         IN  IF \E i \in 1..Len(rest) : rest[i].key = e.key
             THEN [i \in 1..Len(rest) |-> IF rest[i].key = e.key THEN e ELSE rest[i]]
             ELSE Append(rest, e)

\* induceMapping(field, description, sku, invoice); field.replace('.sku', '.description')
\* finds no '.sku' in a path written with slashes
induceMapping(field, description, sku) ==
    IF ~Truthy(description) \/ ~Truthy(sku) THEN NoRule
    ELSE VendorPattern("MAP",
                       createMapRule(ObjectEntries(<<[key |-> Normalized(description.s),
                                                      value |-> sku.s]>>
                                                   \o TokenEntries(Normalized(description.s), sku.s)),
                                     field),
                       8500)

isSkuField(field) == \E i \in 0..1 : field = SkuPath(i)

\* the add and replace operations of the patch whose value changed; in the
\* line items the corrections of the model set the sku only
ChangedFields(systemOutput, humanCorrection) ==
    {f \in DOMAIN humanCorrection \ {"lineItems"} :
        humanCorrection[f] # systemOutput[f] /\ humanCorrection[f] # Undefined}
    \cup
    {SkuPath(i - 1) : i \in
        {j \in 1..(IF systemOutput.lineItems.t = "arr" /\ humanCorrection.lineItems.t = "arr"
                       /\ Len(systemOutput.lineItems.a) = Len(humanCorrection.lineItems.a)
                    THEN Len(systemOutput.lineItems.a) ELSE 0) :
            /\ humanCorrection.lineItems.a[j].sku # systemOutput.lineItems.a[j].sku
            /\ humanCorrection.lineItems.a[j].sku # Undefined}}

\* one iteration of the loop over the changes; acc is [vendorRules, correctionRules]
induceField(field, newValue, systemOutput, acc) ==
    IF isDateField(field)
    THEN LET rule == induceRegexForDate(newValue, systemOutput.rawText)
         IN  IF rule # NoRule
             THEN [acc EXCEPT !.vendorRules = Append(@, [field |-> field, pattern |-> rule])]
             ELSE acc
    ELSE IF isNumericField(field) /\ newValue.t = "num"
    THEN LET formulaRule == induceArithmeticFormula(field, newValue, systemOutput)
             rule == induceRegexForNumber(field, newValue, systemOutput.rawText)
         IN  IF formulaRule # NoRule
             THEN [acc EXCEPT !.correctionRules = Append(@, formulaRule)]
             ELSE IF rule # NoRule
             THEN [acc EXCEPT !.vendorRules = Append(@, [field |-> field, pattern |-> rule])]
             ELSE acc
    ELSE IF isSkuField(field)
    THEN LET description == getDescriptionForSku(field, systemOutput)
             rule == IF description # Null THEN induceMapping(field, description, newValue)
                     ELSE NoRule
         IN  IF rule # NoRule
             THEN [acc EXCEPT !.vendorRules = Append(@, [field |-> field, pattern |-> rule])]
             ELSE acc
    ELSE acc

RECURSIVE induceFields(_, _, _, _)
induceFields(order, systemOutput, humanCorrection, acc) ==
    IF order = <<>> THEN acc
    ELSE induceFields(Tail(order), systemOutput, humanCorrection,
                      induceField(Head(order), getFieldValue(humanCorrection, Head(order)),
                                  systemOutput, acc))

\* induceRules(systemOutput, humanCorrection); order is the order of the
\* changed fields in the patch, which follows the key order of the two objects
induceRules(systemOutput, humanCorrection, order) ==
    induceFields(order, systemOutput, humanCorrection,
                 [vendorRules |-> <<>>, correctionRules |-> <<>>])

-----------------------------------------------------------------------------
(* MemoryStore: vendor and correction tables *)

\* INSERT OR REPLACE INTO vendor_memories: the new row is the last one
saveVendorMemoryReplacesAll(vendors, memory) ==
    <<memory>>

saveVendorMemoryInserts(vendors, memory) ==
    vendors \o <<memory>>

\* INSERT OR REPLACE on the primary key id
saveVendorMemory(vendors, memory) ==
    SelectSeq(vendors, LAMBDA row : row.id # memory.id) \o <<memory>>

RECURSIVE saveCorrectionMemories(_, _)
saveCorrectionMemories(corrections, rules) ==
    IF rules = <<>> THEN corrections
    ELSE saveCorrectionMemories(
             Append(corrections,
                    CorrectionMemory(Head(rules).formula \o "-" \o ToString(Len(corrections) + 1),
                                     Head(rules).triggerCondition, Head(rules).action,
                                     Head(rules).confidence)),
             Tail(rules))

RECURSIVE addPatternsKeepsOlder(_, _)
addPatternsKeepsOlder(patterns, vendorRules) ==
    IF vendorRules = <<>> THEN patterns
    ELSE addPatternsKeepsOlder(IF Head(vendorRules).field \in DOMAIN patterns THEN patterns
                               ELSE SetKey(patterns, Head(vendorRules).field,
                                           Head(vendorRules).pattern),
                               Tail(vendorRules))

RECURSIVE addPatterns(_, _)
addPatterns(patterns, vendorRules) ==
    IF vendorRules = <<>> THEN patterns
    ELSE addPatterns(SetKey(patterns, Head(vendorRules).field, Head(vendorRules).pattern),
                     Tail(vendorRules))

-----------------------------------------------------------------------------
(* DecisionEngine.decide called on any context and proposals *)

DecideLineItems ==
    {Undefined,
     Arr(<<LineItem("Service A", Num(100000)), LineItem("Service B", Num(50000))>>),
     Arr(<<LineItem("Service A", Num(100000))>>),
     Arr(<<LineItem("Service A", Undefined)>>)}

DecideInvoices ==
    {Invoice("INV-A-003", "Supplier GmbH", "A-003", Str("2024-02-10"), total,
             Undefined, Undefined, items, <<>>) :
        total \in {Undefined, Num(0), Num(150000)}, items \in DecideLineItems}
    \cup {Invoice("INV-A-005", "Supplier GmbH", "A-003", Undefined, Num(150000),
                  Undefined, Undefined, Undefined, <<>>),
          Invoice("INV-A-006", "Supplier GmbH", "A-003", Str("2024-02-10"), Num(150000),
                  Undefined, Undefined, Undefined, <<>>),
          Invoice("INV-X-001", "", "X-001", Str("2024-02-10"), Num(150000),
                  Undefined, Undefined, Undefined, <<>>)}

DecideVendorMemories == {NoVendorMemory, VendorMemory("vendor-1", "Supplier GmbH", <<>>)}

DecideProposalChoices(field) ==
    IF field = "date"
    THEN {FieldConfidence(Str("10.02.2024"), c, "VENDOR_PATTERN", "vendor-1-date") : c \in {8900, 9500}}
    ELSE {FieldConfidence(Num(150000), c, "VENDOR_PATTERN", "vendor-1-totalAmount") : c \in {7600, 9500}}

DecideProposals ==
    UNION {[S -> UNION {DecideProposalChoices(f) : f \in S}] : S \in SUBSET {"date", "totalAmount"}}

DecideCall(context, proposals) ==
    /\ dec' = [called |-> TRUE, context |-> context, proposals |-> proposals,
               before |-> processed_invoices,
               contract |-> decide(context, proposals, processed_invoices)]
    /\ processed_invoices' = decideRecord(context, proposals, processed_invoices)
    /\ UNCHANGED <<vendor_memories, correction_memories, resolution_memories,
                   inflight, last, seen, calls, cc, res>>

NextDecide ==
    \E invoice \in DecideInvoices, vm \in DecideVendorMemories, proposals \in DecideProposals :
        /\ \A f \in DOMAIN proposals : proposals[f] \in DecideProposalChoices(f)
        /\ DecideCall(Context(invoice, vm, <<>>, <<>>, <<>>), proposals)

-----------------------------------------------------------------------------
(* CognitiveEngine.calculateConfidence called on any arguments *)

BaseConfidences == {0, 7000, 8500, 9000, 9500, 10000}

Resolutions ==
    {NoResolution} \cup
    {[totalApplications |-> t, acceptedCount |-> a, rejectedCount |-> r, history |-> <<>>] :
        t \in 0..MaxApplications, a \in 0..MaxApplications, r \in 0..MaxApplications}

CalculateCall(base, resolution, lastUsed, now) ==
    /\ cc' = [called |-> TRUE, baseConfidence |-> base, resolution |-> resolution,
              lastUsed |-> lastUsed, now |-> now,
              result |-> calculateConfidence(base, resolution, lastUsed, now)]
    /\ UNCHANGED <<vendor_memories, correction_memories, resolution_memories,
                   processed_invoices, inflight, last, seen, calls, dec, res>>

NextCalculate ==
    \E base \in BaseConfidences, resolution \in Resolutions,
       lastUsed \in {NoLastUsed} \cup 0..MaxDay, now \in 0..MaxDay :
        /\ resolution # NoResolution =>
               resolution.acceptedCount + resolution.rejectedCount <= resolution.totalApplications
        /\ CalculateCall(base, resolution, lastUsed, now)

-----------------------------------------------------------------------------
(* MemoryStore.recordResolution called on one rule id, many times *)

HistoryLimit == 100

Outcomes == {"ACCEPTED", "REJECTED", "MODIFIED"}

\* memory.history.slice(-100)
LastItems(history, n) ==
    IF Len(history) > n THEN SubSeq(history, Len(history) - n + 1, Len(history)) ELSE history

recordResolutionKeepsOldest(resolutions, ruleId, invoiceId, outcome) ==
    LET memory == getResolutionMemory(resolutions, ruleId)
        history == Append(memory.history, [invoiceId |-> invoiceId, outcome |-> outcome])
    IN  SetKey(resolutions, ruleId,
               [totalApplications |-> memory.totalApplications + 1,
                acceptedCount |-> memory.acceptedCount + (IF outcome = "ACCEPTED" THEN 1 ELSE 0),
                rejectedCount |-> memory.rejectedCount + (IF outcome = "REJECTED" THEN 1 ELSE 0),
                history |-> IF Len(history) > HistoryLimit
                            THEN SubSeq(history, 1, HistoryLimit)
                            ELSE history])

recordResolutionCountsVerdictsOnly(resolutions, ruleId, invoiceId, outcome) ==
    LET memory == getResolutionMemory(resolutions, ruleId)
        history == Append(memory.history, [invoiceId |-> invoiceId, outcome |-> outcome])
    IN  SetKey(resolutions, ruleId,
               [totalApplications |-> memory.totalApplications
                                          + (IF outcome = "MODIFIED" THEN 0 ELSE 1),
                acceptedCount |-> memory.acceptedCount + (IF outcome = "ACCEPTED" THEN 1 ELSE 0),
                rejectedCount |-> memory.rejectedCount + (IF outcome = "REJECTED" THEN 1 ELSE 0),
                history |-> IF Len(history) > HistoryLimit
                            THEN LastItems(history, HistoryLimit)
                            ELSE history])

\* the resolution_memories table after recordResolution(ruleId, invoiceId, outcome);
\* timestamps are left out
recordResolution(resolutions, ruleId, invoiceId, outcome) ==
    LET memory == getResolutionMemory(resolutions, ruleId)
        history == Append(memory.history, [invoiceId |-> invoiceId, outcome |-> outcome])
    IN  SetKey(resolutions, ruleId,
               [totalApplications |-> memory.totalApplications + 1,
                acceptedCount |-> memory.acceptedCount + (IF outcome = "ACCEPTED" THEN 1 ELSE 0),
                rejectedCount |-> memory.rejectedCount + (IF outcome = "REJECTED" THEN 1 ELSE 0),
                history |-> IF Len(history) > HistoryLimit
                            THEN LastItems(history, HistoryLimit)
                            ELSE history])

HistoryRule == "vendor-1-serviceDate"

\* the n-th call is made for the n-th invoice; the first MaxVaried outcomes
\* are any of the three, the later ones ACCEPTED
RecordCall(outcome) ==
    /\ Len(res.log) < MaxRecords
    /\ Len(res.log) >= MaxVaried => outcome = "ACCEPTED"
    /\ LET invoiceId == "INV-" \o ToString(Len(res.log) + 1)
       IN  /\ resolution_memories' =
                  recordResolution(resolution_memories, HistoryRule, invoiceId, outcome)
           /\ res' = [called |-> TRUE,
                      before |-> getResolutionMemory(resolution_memories, HistoryRule),
                      log |-> Append(res.log, [invoiceId |-> invoiceId, outcome |-> outcome])]
    /\ UNCHANGED <<vendor_memories, correction_memories, processed_invoices,
                   inflight, last, seen, calls, dec, cc>>

NextRecord == \E outcome \in Outcomes : RecordCall(outcome)

-----------------------------------------------------------------------------
(* Agent.process and Agent.learn *)

\* OutputContractSchema.parse(output) does not throw
OutputValid(contract) ==
    /\ \A f \in StringFields : contract.output[f].t \in {"str", "undefined"}
    /\ \A f \in NumberFields :
           \/ contract.output[f].t = "undefined"
           \/ (contract.output[f].t = "num" /\ contract.output[f].n # NaN)
    /\ contract.output["lineItems"].t \in {"arr", "undefined"}
    /\ contract.output["invoiceId"].t = "str"
    /\ contract.output["vendor"].t = "str"
    /\ contract.output["invoiceNumber"].t = "str"
    /\ contract.confidence \in 0..10000
    /\ \A i \in 1..Len(contract.auditTrail) :
           contract.auditTrail[i].confidence \in {NoConfidence} \cup 0..10000

invoiceSupplierA001 ==
    Invoice("INV-A-001", "Supplier GmbH", "A-001", Str("2023-12-15"), Num(100000),
            Undefined, Undefined, Undefined,
            <<DateLine("Rechnungsdatum", "15.12.2023"), DateLine("Leistungsdatum", "01.12.2023"),
              NumLine("Betrag", "1000.00", 100000)>>)

invoiceSupplierA002 ==
    Invoice("INV-A-002", "Supplier GmbH", "A-002", Str("2024-01-20"), Num(150000),
            Undefined, Undefined, Undefined,
            <<DateLine("Rechnungsdatum", "20.01.2024"), DateLine("Leistungsdatum", "15.01.2024"),
              NumLine("Betrag", "1500.00", 150000)>>)

\* Invoice A-003 as read without its total
invoiceSupplierA003 ==
    Invoice("INV-A-003", "Supplier GmbH", "A-003", Str("2024-02-10"), Undefined,
            Undefined, Undefined,
            Arr(<<LineItem("Service A", Num(100000)), LineItem("Service B", Num(150000))>>),
            <<DateLine("Rechnungsdatum", "10.02.2024"), NumLine("Gesamt", "2500.00", 250000)>>)

invoiceDuplicate ==
    Invoice("INV-A-004", "Supplier GmbH", "A-001", Str("2023-12-15"), Num(100000),
            Undefined, Undefined, Undefined,
            <<DateLine("Rechnungsdatum", "15.12.2023"), NumLine("Betrag", "1000.00", 100000)>>)

invoicePartsB001 ==
    Invoice("INV-B-001", "Parts AG", "B-001", Str("2024-01-10"), Num(11900), Num(0), Num(0),
            Undefined,
            <<DateLine("Datum", "10.01.2024"), NumLine("Gesamt", "119.00", 11900),
              MarkLine("MwSt. inkl.")>>)

invoicePartsB002 ==
    Invoice("INV-B-002", "Parts AG", "B-002", Str("2024-02-15"), Num(23800), Num(0), Num(0),
            Undefined,
            <<DateLine("Datum", "15.02.2024"), NumLine("Gesamt", "238.00", 23800),
              MarkLine("MwSt. inkl.")>>)

\* an invoice with none of the optional fields
invoiceBare ==
    Invoice("INV-C-001", "Freight & Co", "C-001", Undefined, Undefined,
            Undefined, Undefined, Undefined, <<>>)

Invoices ==
    {invoiceSupplierA001, invoiceSupplierA002, invoiceSupplierA003, invoiceDuplicate,
     invoicePartsB001, invoicePartsB002, invoiceBare}

\* what a human changes in an invoice
Changes ==
    {<<>>,
     [serviceDate |-> Str("2023-12-01")],
     [serviceDate |-> Str("2023-12-15")],
     [taxAmount |-> Num(1900)],
     [taxAmount |-> Num(1900), netAmount |-> Num(10000)],
     [totalAmount |-> Num(250000)]}

Corrected(invoice, change) ==
    [f \in DOMAIN invoice |-> IF f \in DOMAIN change THEN change[f] ELSE invoice[f]]

Orders(S) ==
    {order \in [1..Cardinality(S) -> S] :
        \A i, j \in 1..Cardinality(S) : order[i] = order[j] => i = j}

\* the (vendor, invoiceNumber, date, totalAmount) of an invoice
Tuple(invoice) ==
    <<invoice.vendor, invoice.invoiceNumber, invoice.date, invoice.totalAmount>>

buildContextStoreCreatesRows(invoice, vendors, corrections, resolutions, processed) ==
    LET vendorMemory == findVendorMemory(vendors, invoice.vendor.s)
        ids == IF vendorMemory = NoVendorMemory THEN {}
               ELSE {PatternId(vendorMemory, f) : f \in DOMAIN vendorMemory.patterns}
    IN  <<vendors, corrections,
          [id \in DOMAIN resolutions \cup ids |-> getResolutionMemory(resolutions, id)],
          processed>>

\* the four tables after buildContext(invoice): findVendorByName,
\* getAllVendorMemories, getResolutionMemory and getAllCorrectionMemories only select
buildContextStore(invoice, vendors, corrections, resolutions, processed) ==
    <<vendors, corrections, resolutions, processed>>

\* process(invoice) up to its await: the input is validated and the context built
ProcessStart(invoice) ==
    /\ calls < MaxCalls
    /\ Len(inflight) < MaxInflight
    /\ inflight' = Append(inflight, buildContext(invoice, vendor_memories, correction_memories,
                                                 resolution_memories))
    /\ LET after == buildContextStore(invoice, vendor_memories, correction_memories,
                                      resolution_memories, processed_invoices)
       IN  /\ vendor_memories' = after[1]
           /\ correction_memories' = after[2]
           /\ resolution_memories' = after[3]
           /\ processed_invoices' = after[4]
    /\ calls' = calls + 1
    /\ last' = [op |-> "start", invoice |-> invoice, before |-> store]
    /\ UNCHANGED <<seen, dec, cc, res>>

\* process(invoice) after its await: apply, decide, validate the output
ProcessFinish ==
    /\ inflight # <<>>
    /\ LET recalled == Head(inflight)
           context == [recalled EXCEPT !.auditTrail =
                           Append(@, AuditEntry("START", "PROCESSING_STARTED", "", NoConfidence))]
           applied == apply(context)
           acting == [context EXCEPT !.auditTrail = applied.auditTrail]
           contract == decide(acting, applied.proposals, processed_invoices)
       IN  /\ processed_invoices' = decideRecord(acting, applied.proposals, processed_invoices)
           /\ last' = [op |-> "process",
                       invoice |-> context.invoice,
                       vendorMemory |-> context.vendorMemory,
                       corrections |-> context.correctionMemories,
                       proposals |-> applied.proposals,
                       contract |-> contract,
                       threw |-> ~OutputValid(contract),
                       before |-> processed_invoices,
                       seen |-> seen,
                       trails |-> <<recalled.auditTrail, context.auditTrail,
                                    applied.auditTrail>>]
           /\ seen' = seen \cup {Tuple(context.invoice)}
    /\ inflight' = Tail(inflight)
    /\ UNCHANGED <<vendor_memories, correction_memories, resolution_memories, calls, dec, cc, res>>

\* learn(systemOutput, humanCorrection)
learnSaveAlways(vendors, learned, vendorRules) ==
    saveVendorMemory(vendors, learned)

\* if (induction.vendorRules.length > 0) this.store.saveVendorMemory(vendorMemory)
learnSave(vendors, learned, vendorRules) ==
    IF Len(vendorRules) > 0 THEN saveVendorMemory(vendors, learned) ELSE vendors

Learn(systemOutput, humanCorrection, order) ==
    /\ calls < MaxCalls
    /\ LET induction == induceRules(systemOutput, humanCorrection, order)
           found == findVendorMemory(vendor_memories, humanCorrection.vendor.s)
           vendorMemory == IF found # NoVendorMemory THEN found
                           ELSE VendorMemory("vendor-" \o ToString(Len(vendor_memories) + 1),
                                             humanCorrection.vendor.s, <<>>)
           learned == [vendorMemory EXCEPT !.patterns = addPatterns(@, induction.vendorRules)]
       IN  /\ vendor_memories' = learnSave(vendor_memories, learned, induction.vendorRules)
           /\ correction_memories' = saveCorrectionMemories(correction_memories,
                                                            induction.correctionRules)
           /\ last' = [op |-> "learn", systemOutput |-> systemOutput.id.s,
                       vendor |-> humanCorrection.vendor.s,
                       identical |-> systemOutput = humanCorrection,
                       induction |-> induction,
                       vendorsBefore |-> vendor_memories,
                       correctionsBefore |-> correction_memories,
                       before |-> store]
    /\ calls' = calls + 1
    /\ UNCHANGED <<resolution_memories, processed_invoices, inflight, seen, dec, cc, res>>

Next ==
    \/ \E invoice \in Invoices : ProcessStart(invoice)
    \/ ProcessFinish
    \/ \E systemOutput \in Invoices, change \in Changes :
           \E order \in Orders(ChangedFields(systemOutput, Corrected(systemOutput, change))) :
               Learn(systemOutput, Corrected(systemOutput, change), order)

-----------------------------------------------------------------------------
(* Specifications *)

-----------------------------------------------------------------------------
(* Agent.process and Agent.learn on the freight invoices, with sku corrections *)

invoiceFreightC001 ==
    Invoice("INV-C-001", "Freight & Co", "C-001", Str("2024-01-15"), Num(50000),
            Undefined, Undefined,
            Arr(<<LineItem("Seefracht Hamburg-NY", Num(50000))>>),
            <<DateLine("Datum", "15.01.2024"),
              NumLine("Seefracht Hamburg-NY", "500.00", 50000),
              NumLine("Gesamt", "500.00", 50000)>>)

invoiceFreightC002 ==
    Invoice("INV-C-002", "Freight & Co", "C-002", Str("2024-02-20"), Num(75000),
            Undefined, Undefined,
            Arr(<<LineItem("Seefracht Rotterdam-Boston", Num(75000))>>),
            <<DateLine("Datum", "20.02.2024"),
              NumLine("Seefracht Rotterdam-Boston", "750.00", 75000),
              NumLine("Gesamt", "750.00", 75000)>>)

\* a later invoice with two line items, the token in capitals in the second
invoiceFreightC003 ==
    Invoice("INV-C-003", "Freight & Co", "C-003", Str("2024-02-20"), Num(90000),
            Undefined, Undefined,
            Arr(<<LineItem("Luftfracht", Num(15000)), LineItem("Zoll und SEEFRACHT", Num(75000))>>),
            <<DateLine("Datum", "20.02.2024"), NumLine("Gesamt", "900.00", 90000)>>)

FreightInvoices == {invoiceFreightC001, invoiceFreightC002, invoiceFreightC003}

Skus == {"FREIGHT", "AIR"}

\* the invoice with the sku of line item i set by a human
WithSku(invoice, i, sku) ==
    [invoice EXCEPT !.lineItems = Arr([invoice.lineItems.a EXCEPT ![i].sku = Str(sku)])]

\* correctionFreightC001 and its like: one sku set, and possibly the service date
FreightCorrections(invoice) ==
    {invoice} \cup
    {Corrected(WithSku(invoice, i, sku), change) :
        i \in 1..Len(invoice.lineItems.a), sku \in Skus,
        change \in {<<>>, [serviceDate |-> Str("2024-01-15")]}}

NextFreight ==
    \/ \E invoice \in FreightInvoices : ProcessStart(invoice)
    \/ ProcessFinish
    \/ \E systemOutput \in FreightInvoices :
           \E humanCorrection \in FreightCorrections(systemOutput) :
               \E order \in Orders(ChangedFields(systemOutput, humanCorrection)) :
                   Learn(systemOutput, humanCorrection, order)

-----------------------------------------------------------------------------
(* DecisionEngine.recordResolutions called on any proposals and correction *)

fieldOutcomeAcceptedOnlyIfEqual(humanValue, systemValue) ==
    IF humanValue = systemValue THEN "ACCEPTED" ELSE "REJECTED"

\* (humanValue === systemValue || humanValue === undefined) ? 'ACCEPTED' : 'REJECTED'
fieldOutcome(humanValue, systemValue) ==
    IF humanValue = systemValue \/ humanValue = Undefined THEN "ACCEPTED" ELSE "REJECTED"

RECURSIVE recordResolutionsFrom(_, _, _, _)
recordResolutionsFrom(order, resolutions, proposals, humanCorrection) ==
    IF order = <<>> THEN resolutions
    ELSE LET field == Head(order)
             recorded ==
                 IF field \in DOMAIN proposals /\ proposals[field].ruleId # ""
                 THEN recordResolution(resolutions, proposals[field].ruleId,
                                       humanCorrection.id.s,
                                       fieldOutcome(humanCorrection[field],
                                                    proposals[field].value))
                 ELSE resolutions
         IN  recordResolutionsFrom(Tail(order), recorded, proposals, humanCorrection)

\* the resolution_memories table after recordResolutions(proposals, humanCorrection, outcome);
\* the outcome argument is not read
recordResolutions(resolutions, proposals, humanCorrection) ==
    recordResolutionsFrom(KeyOrder, resolutions, proposals, humanCorrection)

ResolveProposal(field) ==
    IF field = "serviceDate"
    THEN FieldConfidence(Str("15.01.2024"), 7600, "VENDOR_PATTERN", "vendor-1-serviceDate")
    ELSE IF field = "totalAmount"
    THEN FieldConfidence(Num(238000), 7200, "CORRECTION_RULE", "inclusive_vat_19-1")
    ELSE FieldConfidence(Str("EUR"), 9000, "VENDOR_PATTERN", "")

ResolveProposals ==
    {[f \in S |-> ResolveProposal(f)] :
        S \in {{}, {"currency"}, {"serviceDate"}, {"serviceDate", "totalAmount", "currency"}}}

ResolveChanges ==
    {[serviceDate |-> d, totalAmount |-> t] :
        d \in {Str("15.01.2024"), Str("01.12.2023"), Undefined},
        t \in {Num(238000), Num(200000), Undefined}}

ResolveCall(proposals, humanCorrection) ==
    /\ Len(res.log) < MaxResolved
    /\ resolution_memories' = recordResolutions(resolution_memories, proposals, humanCorrection)
    /\ res' = [called |-> TRUE, proposals |-> proposals, humanCorrection |-> humanCorrection,
               before |-> resolution_memories,
               log |-> Append(res.log, humanCorrection.id.s)]
    /\ UNCHANGED <<vendor_memories, correction_memories, processed_invoices,
                   inflight, last, seen, calls, dec, cc>>

NextResolve ==
    \E proposals \in ResolveProposals, change \in ResolveChanges :
        ResolveCall(proposals,
                    Corrected(IF res.log = <<>> THEN invoiceSupplierA001 ELSE invoicePartsB001,
                              change))

-----------------------------------------------------------------------------
(* Agent.process and Agent.learn, with DecisionEngine.recordResolutions called
   on the proposals of a finished process() and a human's verdict on them *)

ReinforceInvoices == {invoicePartsB001, invoicePartsB002}

\* the human's verdicts: a change of theirs, or every proposed value taken over
Verdicts(proposals) ==
    Changes \cup {[f \in DOMAIN proposals |-> proposals[f].value]}

NextReinforce ==
    \/ \E invoice \in ReinforceInvoices : ProcessStart(invoice)
    \/ ProcessFinish
    \/ \E systemOutput \in ReinforceInvoices, change \in Changes :
           \E order \in Orders(ChangedFields(systemOutput, Corrected(systemOutput, change))) :
               Learn(systemOutput, Corrected(systemOutput, change), order)
    \/ /\ last.op = "process"
       /\ \E change \in Verdicts(last.proposals) :
              ResolveCall(last.proposals, Corrected(last.invoice, change))

-----------------------------------------------------------------------------
(* Agent.process and Agent.learn on invoices whose vendor names differ in case only *)

\* an invoice like A-001 with the vendor's name in small letters
invoiceSupplierLower ==
    Invoice("INV-A-005", "supplier gmbh", "A-005", Str("2023-12-15"), Num(100000),
            Undefined, Undefined, Undefined,
            <<DateLine("Rechnungsdatum", "15.12.2023"), DateLine("Leistungsdatum", "01.12.2023"),
              NumLine("Betrag", "1000.00", 100000)>>)

\* an invoice of Parts AG that states its service date
invoicePartsDated ==
    Invoice("INV-B-003", "Parts AG", "B-003", Str("2023-12-15"), Num(11900), Num(0), Num(0),
            Undefined,
            <<DateLine("Datum", "15.12.2023"), DateLine("Leistungsdatum", "01.12.2023"),
              NumLine("Gesamt", "119.00", 11900)>>)

VendorInvoices == {invoiceSupplierA001, invoiceSupplierLower, invoicePartsDated}

NextVendors ==
    \/ \E invoice \in VendorInvoices : ProcessStart(invoice)
    \/ ProcessFinish
    \/ \E systemOutput \in VendorInvoices, change \in Changes :
           \E order \in Orders(ChangedFields(systemOutput, Corrected(systemOutput, change))) :
               Learn(systemOutput, Corrected(systemOutput, change), order)

-----------------------------------------------------------------------------
(* Agent.process on invoices with and without a date and a total *)

\* Freight & Co C-001 with its optional date and total present or not:
\* z.string().optional() admits '' and z.number().optional() admits 0
SparseInvoices ==
    {[invoiceBare EXCEPT !.id = Str(id), !.date = date, !.totalAmount = total] :
        id \in {"INV-C-001", "INV-C-009"},
        date \in {Undefined, Str(""), Str("2024-01-15")},
        total \in {Undefined, Num(0), Num(50000)}}

NextSparse ==
    \/ \E invoice \in SparseInvoices : ProcessStart(invoice)
    \/ ProcessFinish

-----------------------------------------------------------------------------
(* CognitiveEngine.apply called on contexts with any correction memories *)

\* { '-': [{var: a}, {var: b}] } and {var: a}, beside the three induced formulas
ApplyActions ==
    {createArithmeticRule("inclusive_vat_19", "totalAmount"),
     createArithmeticRule("exclusive_vat_19", "netAmount"),
     [op |-> "-", var |-> "totalAmount", var2 |-> "taxAmount"],
     [op |-> "-", var |-> "totalAmount", var2 |-> "netAmount"],
     [op |-> "var", var |-> "currency"],
     [op |-> "var", var |-> "invoiceNumber"]}

ApplyTriggers ==
    {createTrigger("taxAmount", "totalAmount", TRUE),
     createTrigger("taxAmount", "totalAmount", FALSE),
     createTrigger("netAmount", "totalAmount", FALSE)}

ApplyCorrectionLists ==
    {<<CorrectionMemory("rule-1", t, a, 9500)>> : t \in ApplyTriggers, a \in ApplyActions}
    \cup
    {<<CorrectionMemory("rule-1", createTrigger("taxAmount", "totalAmount", FALSE), a, 9500),
       CorrectionMemory("rule-2", createTrigger("netAmount", "totalAmount", FALSE), b, c)>> :
        a \in ApplyActions, b \in ApplyActions, c \in {9000, 7000}}

ApplyCall(invoice, corrections) ==
    /\ LET context == Context(invoice, NoVendorMemory, corrections, <<>>, <<>>)
       IN  res' = [called |-> TRUE, log |-> <<>>, context |-> context,
                   result |-> apply(context)]
    /\ UNCHANGED <<store, inflight, last, seen, calls, dec, cc>>

NextApply ==
    \E invoice \in {invoiceSupplierA001, invoicePartsB001, invoicePartsB002},
       corrections \in ApplyCorrectionLists :
        ApplyCall(invoice, corrections)

-----------------------------------------------------------------------------
(* adapter.ts applyCorrections called on any invoice and corrections *)

\* one entry of corrections.corrections: field[index].prop, or a simple
\* field (index NaN, no prop)
Correction(field, index, prop, to) == [field |-> field, index |-> index, prop |-> prop, to |-> to]

\* one iteration of the loop. corrected is the copy made by { ...invoice },
\* original the argument as it is now; shared says that both still hold the
\* same lineItems array, which the spread does not copy
adapterApplyStep(correction, acc) ==
    IF correction.index # NaN
    THEN LET array == acc.corrected[correction.field]
             idx == correction.index + 1
         IN  IF array.t = "arr" /\ idx \in 1..Len(array.a)
             THEN LET written == Arr([array.a EXCEPT ![idx] =
                                         SetKey(@, correction.prop, correction.to)])
                  IN  [corrected |-> [acc.corrected EXCEPT ![correction.field] = written],
                       original |-> IF acc.shared
                                    THEN [acc.original EXCEPT ![correction.field] = written]
                                    ELSE acc.original,
                       shared |-> acc.shared]
             ELSE acc
    ELSE [corrected |-> [acc.corrected EXCEPT ![correction.field] = correction.to],
          original |-> acc.original,
          shared |-> acc.shared /\ correction.field # "lineItems"]

RECURSIVE adapterApplyFrom(_, _)
adapterApplyFrom(corrections, acc) ==
    IF corrections = <<>> THEN acc
    ELSE adapterApplyFrom(Tail(corrections), adapterApplyStep(Head(corrections), acc))

\* applyCorrections(invoice, corrections): the value returned and the argument afterwards
adapterApplyCorrections(invoice, corrections) ==
    adapterApplyFrom(corrections,
                         [corrected |-> invoice, original |-> invoice, shared |-> TRUE])

HumanCorrections ==
    {Correction("serviceDate", NaN, "", Str("2024-01-15")),
     Correction("totalAmount", NaN, "", Num(250000)),
     Correction("lineItems", NaN, "", Arr(<<LineItem("Seefracht", Num(50000))>>)),
     Correction("lineItems", 0, "sku", Str("FREIGHT")),
     Correction("lineItems", 1, "sku", Str("AIR"))}

CorrectionLists ==
    {<<>>} \cup {<<c>> : c \in HumanCorrections}
           \cup {<<c, d>> : c \in HumanCorrections, d \in HumanCorrections}

CorrectCall(invoice, corrections) ==
    /\ res' = [called |-> TRUE, log |-> <<>>, invoice |-> invoice, corrections |-> corrections,
               result |-> adapterApplyCorrections(invoice, corrections)]
    /\ UNCHANGED <<store, inflight, last, seen, calls, dec, cc>>

NextCorrect ==
    \E invoice \in Invoices \cup FreightInvoices, corrections \in CorrectionLists :
        CorrectCall(invoice, corrections)

Init ==
    /\ vendor_memories = <<>>
    /\ correction_memories = <<>>
    /\ resolution_memories = <<>>
    /\ processed_invoices = <<>>
    /\ inflight = <<>>
    /\ last = [op |-> "none"]
    /\ seen = {}
    /\ calls = 0
    /\ dec = [called |-> FALSE]
    /\ cc = [called |-> FALSE]
    /\ res = [called |-> FALSE, log |-> <<>>]

Spec == Init /\ [][Next]_vars

SpecDecide == Init /\ [][NextDecide]_vars

SpecCalculate == Init /\ [][NextCalculate]_vars

SpecRecord == Init /\ [][NextRecord]_vars

SpecResolve == Init /\ [][NextResolve]_vars

SpecFreight == Init /\ [][NextFreight]_vars

SpecCorrect == Init /\ [][NextCorrect]_vars

SpecApply == Init /\ [][NextApply]_vars

SpecReinforce == Init /\ [][NextReinforce]_vars

SpecVendors == Init /\ [][NextVendors]_vars

SpecSparse == Init /\ [][NextSparse]_vars

-----------------------------------------------------------------------------
(* Properties of decide(), stated on the input and the contract of the last call *)

DecFingerprintRecorded ==
    generateInvoiceFingerprint(dec.context.invoice) \in DOMAIN dec.before

DecNoVendor == dec.context.vendorMemory = NoVendorMemory

DecCriticalField(f) ==
    \/ ~Truthy(dec.contract.output[f])
    \/ (f \in DOMAIN dec.proposals /\ dec.proposals[f].confidence < 9000)

DecCritical == \E f \in {"totalAmount", "date", "vendor"} : DecCriticalField(f)

DecLowOverall == dec.contract.confidence < 8000

DecItemSum ==
    IF dec.contract.output["lineItems"].t = "arr"
    THEN lineItemSum(dec.contract.output["lineItems"].a)
    ELSE 0

\* line items present, totalAmount present, |totalAmount - sum| > 0.01
DecMismatch ==
    /\ dec.contract.output["lineItems"].t = "arr"
    /\ Len(dec.contract.output["lineItems"].a) > 0
    /\ Truthy(dec.contract.output["totalAmount"])
    /\ Abs(dec.contract.output["totalAmount"].n - DecItemSum) > 1

C2_FirstConditionWins ==
    dec.called =>
        /\ DecFingerprintRecorded => dec.contract.reasoning = DUPLICATE
        /\ (~DecFingerprintRecorded /\ DecNoVendor) => dec.contract.reasoning = NEW_VENDOR
        /\ (~DecFingerprintRecorded /\ ~DecNoVendor /\ DecCritical) =>
               dec.contract.reasoning \in {Critical(f) : f \in {"totalAmount", "date", "vendor"}}
        /\ (~DecFingerprintRecorded /\ ~DecNoVendor /\ ~DecCritical /\ DecLowOverall) =>
               dec.contract.reasoning = LOW_OVERALL
        /\ (~DecFingerprintRecorded /\ ~DecNoVendor /\ ~DecCritical /\ ~DecLowOverall
            /\ DecMismatch /\ DecItemSum > 0) =>
               dec.contract.reasoning = MISMATCH

\* a resubmitted invoice, no vendor memory, a critical field missing and a low overall confidence
C2_Witness ==
    /\ dec.called
    /\ DecFingerprintRecorded /\ DecNoVendor /\ DecCritical /\ DecLowOverall
    /\ dec.contract.reasoning = DUPLICATE

DecFingerprint == generateInvoiceFingerprint(dec.context.invoice)

\* C4: decide() records the fingerprint of an invoice that was not recorded,
\* whatever the outcome (new vendor, low confidence, amount mismatch included),
\* leaving the other rows alone; a duplicate writes nothing to the index.
C4_FingerprintRecorded ==
    dec.called =>
        /\ DecFingerprint \in DOMAIN processed_invoices
        /\ DecFingerprint \in DOMAIN dec.before =>
               /\ processed_invoices = dec.before
               /\ dec.contract.reasoning = DUPLICATE
        /\ DecFingerprint \notin DOMAIN dec.before =>
               /\ DOMAIN processed_invoices = DOMAIN dec.before \cup {DecFingerprint}
               /\ processed_invoices[DecFingerprint].invoiceId = dec.context.invoice.id.s
               /\ \A fp \in DOMAIN dec.before : processed_invoices[fp] = dec.before[fp]

\* a first-seen invoice escalated for an amount mismatch is recorded
C4_Witness ==
    /\ dec.called
    /\ DecFingerprint \notin DOMAIN dec.before
    /\ dec.contract.reasoning = MISMATCH
    /\ DecFingerprint \in DOMAIN processed_invoices

-----------------------------------------------------------------------------
(* Properties of process(), stated on the last call that ran to its end *)

Processed == last.op = "process"

\* the confidences decide() collects: one per proposal, one per remaining
\* field the invoice carries
Collected ==
    [f \in DOMAIN last.proposals \cup {g \in FieldSet : last.invoice[g] # Undefined} |->
        IF f \in DOMAIN last.proposals THEN last.proposals[f].confidence
        ELSE IF last.invoice[f] = Null THEN 0 ELSE 7000]

CollectedSum == SumOver(DOMAIN Collected, Collected)

C29_DuplicateOnlyOfSameTuple ==
    (Processed /\ ~last.threw /\ last.contract.reasoning = DUPLICATE) =>
        Tuple(last.invoice) \in last.seen

\* the contract a call in flight gets when it resumes in the present state
Resumed(recalled) ==
    LET context == [recalled EXCEPT !.auditTrail =
                        Append(@, AuditEntry("START", "PROCESSING_STARTED", "", NoConfidence))]
        applied == apply(context)
        acting == [context EXCEPT !.auditTrail = applied.auditTrail]
    IN  decide(acting, applied.proposals, processed_invoices)

\* the calls in flight whose invoice has the fingerprint of the last processed one
InFlightTwins ==
    {i \in 1..Len(inflight) :
        generateInvoiceFingerprint(inflight[i].invoice) =
            generateInvoiceFingerprint(last.invoice)}

\* C28: decide() checks and records the fingerprint in one step: of the calls
\* started concurrently with one fingerprint, the first to resume finds it
\* unrecorded and records it, and every other is decided as a duplicate.
C28_OneNonDuplicate ==
    Processed =>
        LET fingerprint == generateInvoiceFingerprint(last.invoice)
        IN  /\ fingerprint \in DOMAIN processed_invoices
            /\ (last.contract.reasoning = DUPLICATE) <=> (fingerprint \in DOMAIN last.before)
            /\ fingerprint \notin DOMAIN last.before => processed_invoices # last.before
            /\ \A i \in InFlightTwins :
                   /\ Resumed(inflight[i]).reasoning = DUPLICATE
                   /\ Resumed(inflight[i]).requiresHumanReview

\* a call was decided as no duplicate while another with its fingerprint,
\* started before that decision, was in flight
C28_Witness ==
    /\ Processed
    /\ last.contract.reasoning # DUPLICATE
    /\ generateInvoiceFingerprint(last.invoice) \notin DOMAIN last.before
    /\ InFlightTwins # {}
    /\ \E i \in InFlightTwins : inflight[i].invoice.id # last.invoice.id

C5_ConfidenceIsMean ==
    Processed =>
        /\ last.contract.confidence >= 0
        /\ last.contract.confidence <= 10000
        /\ IF DOMAIN Collected = {}
           THEN last.contract.confidence = 0
           ELSE /\ last.contract.confidence * Cardinality(DOMAIN Collected) <= CollectedSum
                /\ CollectedSum < (last.contract.confidence + 1) * Cardinality(DOMAIN Collected)

\* a returned contract whose confidence is the mean of three different values
C5_Witness ==
    /\ Processed /\ ~last.threw
    /\ Cardinality(DOMAIN Collected) = 3
    /\ \E f, g \in DOMAIN Collected : Collected[f] # Collected[g]
    /\ last.contract.confidence = 7200

\* the vendor memory recalled holds a serviceDate pattern learned under a label
WarmServiceDate ==
    /\ Processed
    /\ last.vendorMemory # NoVendorMemory
    /\ "serviceDate" \in DOMAIN last.vendorMemory.patterns
    /\ last.vendorMemory.patterns["serviceDate"].logic.shape = "date"
    /\ \E i \in 1..Len(last.invoice.rawText) :
           /\ last.invoice.rawText[i].kind = "date"
           /\ last.vendorMemory.patterns["serviceDate"].logic.label
                  \in LabelSuffixes(last.invoice.rawText[i].label)
    /\ generateInvoiceFingerprint(last.invoice) \notin DOMAIN last.before

\* C6 as stated: a later, non-duplicate invoice of a vendor whose memory holds
\* a serviceDate pattern learned under a label, and which carries that label,
\* is returned with the extracted serviceDate and requiresHumanReview = false.
C6_WarmStartAutoApproved ==
    WarmServiceDate =>
        /\ ~last.threw
        /\ last.contract.output["serviceDate"] =
               regexExtract(last.vendorMemory.patterns["serviceDate"].logic, last.invoice.rawText)
        /\ ~last.contract.requiresHumanReview

\* an invoice with taxAmount = 0, totalAmount > 0 and the inclusive marker,
\* processed with the inclusive VAT rule in memory
InclusiveVatCase ==
    /\ Processed
    /\ \E i \in 1..Len(last.corrections) : last.corrections[i].action.op = "inclusive_vat_19"
    /\ last.invoice.taxAmount = Num(0)
    /\ last.invoice.totalAmount.t = "num"
    /\ last.invoice.totalAmount.n > 0
    /\ HasInclusiveMarker(last.invoice.rawText)

\* C7 as stated: with the inclusive VAT rule learned, an invoice with
\* taxAmount = 0, totalAmount = T > 0 and the marker is output with
\* taxAmount = T - T/1.19 (to the cent) and totalAmount = T.
C7_InclusiveVatOutput ==
    InclusiveVatCase =>
        /\ last.contract.output["taxAmount"].t = "num"
        /\ Abs(last.contract.output["taxAmount"].n * 100
               - (last.invoice.totalAmount.n * 100 - Gross119(last.invoice.totalAmount.n))) < 100
        /\ last.contract.output["totalAmount"] = last.invoice.totalAmount

\* C8 as stated: process() returns an OutputContract for every schema-valid
\* invoice, whatever rules have been learned.
C8_ProcessReturns ==
    Processed => ~last.threw

\* the APPLY entries apply() added to the audit trail
Applied ==
    {i \in 1..Len(last.contract.auditTrail) : last.contract.auditTrail[i].step = "APPLY"}

\* C9 as stated: the final proposal of a field has a confidence at least that
\* of every proposal set for the field earlier in the same apply() call.
C9_NeverDowngraded ==
    Processed =>
        \A i \in Applied :
            last.proposals[last.contract.auditTrail[i].field].confidence
                >= last.contract.auditTrail[i].confidence

-----------------------------------------------------------------------------
(* Properties of the confidences decide() collects, stated on the last call *)

\* one value per proposal and one per field of the ten without a proposal:
\* 0.70 when the invoice carries a non-null value, 0.0 otherwise
DecContributions ==
    [f \in DOMAIN dec.proposals \cup FieldSet |->
        IF f \in DOMAIN dec.proposals THEN dec.proposals[f].confidence
        ELSE IF dec.context.invoice[f] \notin {Undefined, Null} THEN 7000 ELSE 0]

DecContributionSum == SumOver(DOMAIN DecContributions, DecContributions)

\* C18: each of the ten fields that no proposal covers contributes exactly
\* one confidence to the mean, 0.70 with the invoice's value copied when that
\* value is present and non-null and 0.0 otherwise; a field with a proposal
\* takes the proposal's value and confidence.
C18_EveryFieldContributes ==
    dec.called =>
        /\ \A f \in DOMAIN dec.proposals :
               dec.contract.output[f] = dec.proposals[f].value
        /\ \A f \in FieldSet \ DOMAIN dec.proposals :
               dec.contract.output[f] = dec.context.invoice[f]
        /\ dec.contract.confidence * Cardinality(DOMAIN DecContributions) <= DecContributionSum
        /\ DecContributionSum <
               (dec.contract.confidence + 1) * Cardinality(DOMAIN DecContributions)

-----------------------------------------------------------------------------
(* Properties of recordResolution(), stated on the calls made so far *)

Recorded == getResolutionMemory(resolution_memories, HistoryRule)

\* C11: the stored history has at most 100 entries and is exactly the most
\* recent arrivals in arrival order; the 101st arrival evicts the oldest.
C11_HistoryIsLastHundred ==
    /\ Len(Recorded.history) <= 100
    /\ Len(Recorded.history) = IF Len(res.log) <= 100 THEN Len(res.log) ELSE 100
    /\ \A i \in 1..Len(Recorded.history) :
           Recorded.history[i] = res.log[Len(res.log) - Len(Recorded.history) + i]

\* 101 arrivals: the first is gone, the second is now the oldest
C11_Witness ==
    /\ Len(res.log) = 101
    /\ Len(Recorded.history) = 100
    /\ Recorded.history[1] = res.log[2]
    /\ Recorded.history[1].outcome = "MODIFIED"
    /\ res.log[1].outcome = "REJECTED"
    /\ Recorded.history[100] = res.log[101]

\* C12: a rule never resolved reads as all-zero with an empty history; each
\* recorded outcome raises totalApplications by exactly one, and
\* acceptedCount + rejectedCount <= totalApplications.
C12_CountersConsistent ==
    /\ getResolutionMemory(resolution_memories, "never-resolved") =
           [totalApplications |-> 0, acceptedCount |-> 0, rejectedCount |-> 0, history |-> <<>>]
    /\ res.log = <<>> => Recorded.totalApplications = 0 /\ Recorded.history = <<>>
    /\ Recorded.acceptedCount + Recorded.rejectedCount <= Recorded.totalApplications
    /\ Recorded.totalApplications = Len(res.log)
    /\ res.called => Recorded.totalApplications = res.before.totalApplications + 1
    /\ Recorded.acceptedCount = Cardinality({i \in 1..Len(res.log) : res.log[i].outcome = "ACCEPTED"})
    /\ Recorded.rejectedCount = Cardinality({i \in 1..Len(res.log) : res.log[i].outcome = "REJECTED"})

\* one outcome of each kind was recorded
C12_Witness ==
    /\ res.called
    /\ Recorded.totalApplications = 3
    /\ Recorded.acceptedCount = 1
    /\ Recorded.rejectedCount = 1
    /\ res.log[3].outcome = "ACCEPTED"

-----------------------------------------------------------------------------
(* Properties of recordResolutions(), stated on the last call *)

Ruled == {f \in DOMAIN res.proposals : res.proposals[f].ruleId # ""}

BeforeRow(ruleId) == getResolutionMemory(res.before, ruleId)

\* C14: recordResolutions records exactly one outcome for each proposal that
\* carries a rule id, ACCEPTED when the human value equals the system value
\* or is unset and REJECTED otherwise, and nothing for a proposal without a
\* rule id.
C14_OneOutcomePerRuledProposal ==
    res.called =>
        /\ DOMAIN resolution_memories =
               DOMAIN res.before \cup {res.proposals[f].ruleId : f \in Ruled}
        /\ \A id \in DOMAIN res.before :
               id \notin {res.proposals[f].ruleId : f \in Ruled} =>
                   resolution_memories[id] = res.before[id]
        /\ \A f \in Ruled :
               LET row == resolution_memories[res.proposals[f].ruleId]
                   was == BeforeRow(res.proposals[f].ruleId)
                   human == res.humanCorrection[f]
                   same == human = res.proposals[f].value \/ human = Undefined
               IN  /\ row.totalApplications = was.totalApplications + 1
                   /\ row.history = Append(was.history,
                                           [invoiceId |-> res.humanCorrection.id.s,
                                            outcome |-> IF same THEN "ACCEPTED" ELSE "REJECTED"])
                   /\ row.acceptedCount = was.acceptedCount + (IF same THEN 1 ELSE 0)
                   /\ row.rejectedCount = was.rejectedCount + (IF same THEN 0 ELSE 1)

\* three proposals, one without a rule id; the human left serviceDate unset
\* and changed totalAmount
C14_Witness ==
    /\ res.called
    /\ DOMAIN res.proposals = {"serviceDate", "totalAmount", "currency"}
    /\ res.humanCorrection.serviceDate = Undefined
    /\ res.humanCorrection.totalAmount = Num(200000)
    /\ Len(resolution_memories["vendor-1-serviceDate"].history) = 2
    /\ resolution_memories["vendor-1-serviceDate"].acceptedCount = 2
    /\ resolution_memories["inclusive_vat_19-1"].rejectedCount = 1
    /\ DOMAIN resolution_memories = {"vendor-1-serviceDate", "inclusive_vat_19-1"}

-----------------------------------------------------------------------------
(* Properties of buildContext(), stated on the last call *)

Recalled == last.op = "start"

\* the context that the last buildContext() returned
RecalledContext == inflight[Len(inflight)]

\* C15: buildContext(invoice) writes nothing: the vendor memories, correction
\* memories, resolution memories and processed invoices after the call are
\* those before it, with and without a matching vendor.
C15_RecallWritesNothing ==
    Recalled => store = last.before

\* the vendor was matched, with a learned pattern whose resolution was looked up
C15_Witness ==
    /\ Recalled
    /\ RecalledContext.vendorMemory # NoVendorMemory
    /\ DOMAIN RecalledContext.vendorMemory.patterns # {}
    /\ Len(RecalledContext.correctionMemories) > 0
    /\ store = last.before

-----------------------------------------------------------------------------
(* Properties of the learned sku mappings, stated on the last process() *)

\* the mapping entries that the vendor memory of the last process() holds
LearnedEntries ==
    IF last.vendorMemory = NoVendorMemory THEN {}
    ELSE UNION {{last.vendorMemory.patterns[f].logic.mapping[i] :
                    i \in 1..Len(last.vendorMemory.patterns[f].logic.mapping)} :
                f \in {g \in DOMAIN last.vendorMemory.patterns :
                          last.vendorMemory.patterns[g].ruleType = "MAP"}}

\* the line items of the processed invoice whose description contains a learned token
MappedItems ==
    IF last.invoice.lineItems.t # "arr" THEN {}
    ELSE {i \in 1..Len(last.invoice.lineItems.a) :
             \E e \in LearnedEntries :
                 Includes(Normalized(last.invoice.lineItems.a[i].description.s), e.key)}

\* C16: once a sku was learned for a description, process() of a later
\* invoice of the vendor returns every line item whose description contains a
\* learned token with the learned sku.
C16_LearnedSkuReturned ==
    (last.op = "process" /\ ~last.threw) =>
        \A i \in MappedItems :
            /\ last.contract.output["lineItems"].t = "arr"
            /\ \E e \in LearnedEntries :
                   /\ Includes(Normalized(last.invoice.lineItems.a[i].description.s), e.key)
                   /\ last.contract.output["lineItems"].a[i].sku = Str(e.value)

-----------------------------------------------------------------------------
(* Properties of applyCorrections(), stated on the last call *)

\* C17: producing a corrected invoice leaves every field of the original
\* invoice, the fields of its line items included, as it was.
C17_OriginalUnchanged ==
    res.called => res.result.original = res.invoice

\* the RECALL entry that the vendor resolution appends
RecallEntry ==
    IF RecalledContext.vendorMemory = NoVendorMemory
    THEN AuditEntry("RECALL", "NEW_VENDOR", "", 0)
    ELSE AuditEntry("RECALL", "VENDOR_MATCHED", "", 9500)

\* C19 as stated: every buildContext() appends exactly one of VENDOR_MATCHED
\* (0.95) and NEW_VENDOR (0.0), and always a CORRECTIONS_LOADED entry after
\* loading all correction memories, also when there are none.
C19_AsClaimed ==
    Recalled =>
        /\ RecalledContext.correctionMemories = correction_memories
        /\ Len(RecalledContext.auditTrail) = 2
        /\ RecalledContext.auditTrail[1] = RecallEntry
        /\ RecalledContext.auditTrail[2].action = "CORRECTIONS_LOADED"

\* C19 amended: every buildContext() appends exactly one of VENDOR_MATCHED
\* (0.95) and NEW_VENDOR (0.0), loads all correction memories, and appends a
\* CORRECTIONS_LOADED entry exactly when at least one correction memory was loaded.
C19_CorrectionsLoadedWhenAny ==
    Recalled =>
        /\ RecalledContext.correctionMemories = correction_memories
        /\ RecalledContext.auditTrail[1] = RecallEntry
        /\ \A i \in 2..Len(RecalledContext.auditTrail) :
               RecalledContext.auditTrail[i].action \notin {"VENDOR_MATCHED", "NEW_VENDOR"}
        /\ IF Len(correction_memories) > 0
           THEN /\ Len(RecalledContext.auditTrail) = 2
                /\ RecalledContext.auditTrail[2] =
                       AuditEntry("RECALL", "CORRECTIONS_LOADED", "", NoConfidence)
           ELSE Len(RecalledContext.auditTrail) = 1

\* a matched vendor with correction memories loaded
C19_Witness ==
    /\ Recalled
    /\ RecalledContext.vendorMemory # NoVendorMemory
    /\ RecalledContext.auditTrail[1].action = "VENDOR_MATCHED"
    /\ Len(RecalledContext.correctionMemories) > 0
    /\ RecalledContext.auditTrail[2].action = "CORRECTIONS_LOADED"

-----------------------------------------------------------------------------
(* Properties of apply(), stated on the last call *)

\* the words an action mentions, read off the property names it uses
Mentions(action) ==
    {w \in {"tax", "net", "total"} :
        \E name \in {action[k] : k \in DOMAIN action \cap {"var", "var2"}} :
            name = w \o "Amount"}

\* the target by the priority tax > net > total
Target(action) ==
    IF "tax" \in Mentions(action) THEN "taxAmount"
    ELSE IF "net" \in Mentions(action) THEN "netAmount"
    ELSE IF "total" \in Mentions(action) THEN "totalAmount"
    ELSE ""

\* the correction rules of the last apply() that were triggered and computed a value
Fired ==
    {i \in 1..Len(res.context.correctionMemories) :
        LET rule == res.context.correctionMemories[i]
        IN  /\ IsTrue(executeRule(rule.triggerCondition, res.context.invoice))
            /\ executeRule(rule.action, res.context.invoice) \notin {Null, Undefined}}

ApplyEntries ==
    SubSeq(res.result.auditTrail, Len(res.context.auditTrail) + 1, Len(res.result.auditTrail))

\* C21: a triggered correction rule writes the field that its action names
\* by the priority tax > net > total, and a rule whose action names none of
\* them leaves no proposal and no audit entry.
C21_TargetByPriority ==
    res.called =>
        LET rules == res.context.correctionMemories
            targets == {Target(rules[i].action) : i \in Fired} \ {""}
        IN  /\ DOMAIN res.result.proposals = targets
            /\ {ApplyEntries[i].field : i \in 1..Len(ApplyEntries)} = targets
            /\ \A i \in 1..Len(ApplyEntries) : ApplyEntries[i].action = "CORRECTION_RULE"
            /\ Len(ApplyEntries) <=
                   Cardinality({i \in Fired : Target(rules[i].action) # ""})
            /\ \A f \in targets :
                   \E i \in Fired : /\ Target(rules[i].action) = f
                                    /\ res.result.proposals[f].ruleId = rules[i].id
                                    /\ res.result.proposals[f].value =
                                           executeRule(rules[i].action, res.context.invoice)

\* a rule reading total and tax wrote taxAmount, a rule reading a field
\* that names none of the three wrote nothing
C21_Witness ==
    /\ res.called
    /\ Len(res.context.correctionMemories) = 2
    /\ Fired = {1, 2}
    /\ Mentions(res.context.correctionMemories[1].action) = {"tax", "total"}
    /\ Mentions(res.context.correctionMemories[2].action) = {}
    /\ DOMAIN res.result.proposals = {"taxAmount"}
    /\ Len(ApplyEntries) = 1

-----------------------------------------------------------------------------
(* Properties of the audit trail, stated on the last process() *)

IsPrefix(s, t) == Len(s) <= Len(t) /\ SubSeq(t, 1, Len(s)) = s

Trail == last.contract.auditTrail

\* C22: the audit trail of a returned contract only grows from stage to
\* stage and ends with its one DECIDE entry, whose action is ESCALATE iff
\* requiresHumanReview and whose reasoning and confidence are the
\* contract's; RECALL entries come before APPLY entries, and these before DECIDE.
C22_TrailEndsWithDecision ==
    (Processed /\ ~last.threw) =>
        /\ IsPrefix(last.trails[1], last.trails[2])
        /\ IsPrefix(last.trails[2], last.trails[3])
        /\ IsPrefix(last.trails[3], Trail)
        /\ Len(Trail) = Len(last.trails[3]) + 1
        /\ \A i \in 1..Len(Trail) : Trail[i].step = "DECIDE" <=> i = Len(Trail)
        /\ Trail[Len(Trail)].action =
               (IF last.contract.requiresHumanReview THEN "ESCALATE" ELSE "AUTO_APPROVE")
        /\ Trail[Len(Trail)].reasoning = last.contract.reasoning
        /\ Trail[Len(Trail)].confidence = last.contract.confidence
        /\ \A i, j \in 1..Len(Trail) :
               (Trail[i].step = "RECALL" /\ Trail[j].step = "APPLY") => i < j

\* a returned contract with two RECALL entries, two APPLY entries and the decision
C22_Witness ==
    /\ Processed /\ ~last.threw
    /\ Cardinality({i \in 1..Len(Trail) : Trail[i].step = "RECALL"}) = 2
    /\ Cardinality({i \in 1..Len(Trail) : Trail[i].step = "APPLY"}) = 2
    /\ Trail[Len(Trail)].action = "ESCALATE"
    /\ Trail[Len(Trail)].reasoning = last.contract.reasoning

-----------------------------------------------------------------------------
(* Properties of the proposals, stated on the last process() *)

\* the proposals of the last process() that a rule of the given source made
ProposedBy(source) ==
    {f \in DOMAIN last.proposals :
        last.proposals[f].source = source /\ last.proposals[f].ruleId # ""}

\* C24: process() and learn() never write resolution memory, every rule
\* reads as never applied, and so every VENDOR_PATTERN proposal with a rule
\* id has 0.8 times the base confidence of its pattern.
C24_PatternsStayUnproven ==
    /\ resolution_memories = <<>>
    /\ Processed =>
           \A f \in ProposedBy("VENDOR_PATTERN") :
               /\ last.proposals[f].ruleId = PatternId(last.vendorMemory, f)
               /\ getResolutionMemory(resolution_memories, last.proposals[f].ruleId)
                      .totalApplications = 0
               /\ last.proposals[f].confidence * 10 =
                      last.vendorMemory.patterns[f].confidence * 8

\* the third call of a sequence proposed a serviceDate by a pattern of base 0.95
C24_Witness ==
    /\ Processed
    /\ calls = 3
    /\ "serviceDate" \in ProposedBy("VENDOR_PATTERN")
    /\ last.vendorMemory.patterns["serviceDate"].confidence = 9500
    /\ last.proposals["serviceDate"].confidence = 7600
    /\ resolution_memories = <<>>

\* the stored correction rule of that id, as process() read it
RuleOf(ruleId) ==
    last.corrections[CHOOSE i \in 1..Len(last.corrections) : last.corrections[i].id = ruleId]

-----------------------------------------------------------------------------
(* Properties of learn(), stated on the last call *)

Learned == last.op = "learn"

NothingInduced ==
    last.induction = [vendorRules |-> <<>>, correctionRules |-> <<>>]

\* C13: induceRules(x, x) returns no vendor rule and no correction rule, and
\* a learn() whose induction is empty, learn(x, x) included, leaves the vendor
\* memories and the correction memories as they were.
C13_NothingLearnedFromNoDiff ==
    Learned =>
        /\ last.identical => NothingInduced
        /\ NothingInduced => /\ vendor_memories = last.vendorsBefore
                             /\ correction_memories = last.correctionsBefore

\* learn(x, x) was called on a store that held a vendor memory
C13_Witness ==
    /\ Learned
    /\ last.identical
    /\ NothingInduced
    /\ vendor_memories # <<>>
    /\ vendor_memories = last.vendorsBefore

\* what learn() does to the vendor store: a row of the vendor is there after a
\* learn() that induced a vendor rule, and the store is as it was after any other
LearnWritesIffVendorRule ==
    Learned =>
        /\ Len(last.induction.vendorRules) > 0 =>
               findVendorMemory(vendor_memories, last.vendor) # NoVendorMemory
        /\ vendor_memories # last.vendorsBefore => Len(last.induction.vendorRules) > 0
        /\ Len(last.induction.vendorRules) = 0 =>
               /\ vendor_memories = last.vendorsBefore
               /\ findVendorMemory(last.vendorsBefore, last.vendor) = NoVendorMemory =>
                      findVendorMemory(vendor_memories, last.vendor) = NoVendorMemory

\* the last process() found no vendor memory, the store holding none for its vendor
Unmatched ==
    /\ Processed /\ ~last.threw
    /\ findVendorMemory(vendor_memories, last.invoice.vendor.s) = NoVendorMemory

\* C26 as stated: learn() writes a vendor memory if and only if a vendor rule
\* was induced, and a vendor still without memory is escalated as a new vendor.
C26_AsClaimed ==
    /\ LearnWritesIffVendorRule
    /\ Unmatched =>
           /\ last.vendorMemory = NoVendorMemory
           /\ last.contract.requiresHumanReview
           /\ last.contract.reasoning = NEW_VENDOR

\* C26 amended: learn() writes a vendor memory if and only if a vendor rule
\* was induced, and a vendor still without memory is escalated: as a duplicate
\* when its invoice's fingerprint was already recorded, as a new vendor otherwise.
C26_UnmatchedEscalated ==
    /\ LearnWritesIffVendorRule
    /\ Unmatched =>
           /\ last.vendorMemory = NoVendorMemory
           /\ last.contract.requiresHumanReview
           /\ last.contract.reasoning =
                  IF isDuplicate(last.before, generateInvoiceFingerprint(last.invoice))
                  THEN DUPLICATE ELSE NEW_VENDOR

\* a Parts AG invoice was processed after a learn() that induced only the
\* correction rule of the inclusive VAT, and was escalated as a new vendor
C26_Witness ==
    /\ Unmatched
    /\ last.invoice.vendor.s = "Parts AG"
    /\ vendor_memories = <<>>
    /\ Len(last.corrections) > 0
    /\ last.corrections[1].action.op = "inclusive_vat_19"
    /\ last.contract.reasoning = NEW_VENDOR

\* the ids of the stored vendor memories, in the order of the rows
VendorIds(vendors) == [i \in 1..Len(vendors) |-> vendors[i].id]

\* the vendor memory the last learn() resolved in the store it found
Resolved == findVendorMemory(last.vendorsBefore, last.vendor)

\* C27: no two stored vendor memories have the same vendorName; learn()
\* adds a row only when it resolved no vendor memory, exactly or approximately,
\* and otherwise rewrites the resolved row under its id and its name.
C27_VendorNamesUnique ==
    /\ \A i, j \in 1..Len(vendor_memories) :
           vendor_memories[i].vendorName = vendor_memories[j].vendorName => i = j
    /\ Learned =>
           IF Resolved = NoVendorMemory
           THEN \/ vendor_memories = last.vendorsBefore
                \/ /\ Len(vendor_memories) = Len(last.vendorsBefore) + 1
                   /\ vendor_memories[Len(vendor_memories)].vendorName = last.vendor
                   /\ \A i \in 1..Len(last.vendorsBefore) :
                          /\ vendor_memories[i] = last.vendorsBefore[i]
                          /\ vendor_memories[i].id # vendor_memories[Len(vendor_memories)].id
           ELSE /\ Len(vendor_memories) = Len(last.vendorsBefore)
                /\ {vendor_memories[i].id : i \in 1..Len(vendor_memories)} =
                       {last.vendorsBefore[i].id : i \in 1..Len(last.vendorsBefore)}
                /\ \A i \in 1..Len(vendor_memories) :
                       vendor_memories[i].id = Resolved.id =>
                           vendor_memories[i].vendorName = Resolved.vendorName

\* learn() for 'supplier gmbh' rewrote the row of 'Supplier GmbH', found by
\* approximate match, beside the row of another vendor
C27_Witness ==
    /\ Learned
    /\ last.vendor = "supplier gmbh"
    /\ Resolved # NoVendorMemory
    /\ Resolved.vendorName = "Supplier GmbH"
    /\ Len(last.induction.vendorRules) > 0
    /\ Len(vendor_memories) = 2

\* the rows of the store the last learn() found that are not the same after it
ChangedRows ==
    {i \in 1..Len(last.vendorsBefore) :
        \A j \in 1..Len(vendor_memories) : vendor_memories[j] # last.vendorsBefore[i]}

\* the rows after the last learn() that the store it found did not hold
WrittenRows ==
    {j \in 1..Len(vendor_memories) :
        \A i \in 1..Len(last.vendorsBefore) : vendor_memories[j] # last.vendorsBefore[i]}

LearnWritesNoOtherTable ==
    /\ resolution_memories = last.before[3]
    /\ processed_invoices = last.before[4]

\* C30 as stated: learn(s, h) changes at most one vendor memory, never one
\* whose vendorName differs from h.vendor, and neither the resolution memory
\* nor the processed invoices.
C30_AsClaimed ==
    Learned =>
        /\ Cardinality(ChangedRows) <= 1
        /\ Cardinality(WrittenRows) <= 1
        /\ \A i \in ChangedRows : last.vendorsBefore[i].vendorName = last.vendor
        /\ LearnWritesNoOtherTable

\* C30 amended: learn(s, h) changes at most one vendor memory, and only the one
\* findVendorMemory resolves for h.vendor, by exact name or else by approximate
\* match; it writes neither the resolution memory nor the processed invoices.
C30_OnlyResolvedChanged ==
    Learned =>
        /\ Cardinality(ChangedRows) <= 1
        /\ Cardinality(WrittenRows) <= 1
        /\ \A i \in ChangedRows : last.vendorsBefore[i] = Resolved
        /\ \A j \in WrittenRows :
               vendor_memories[j].id = IF Resolved = NoVendorMemory
                                       THEN "vendor-" \o ToString(Len(last.vendorsBefore) + 1)
                                       ELSE Resolved.id
        /\ LearnWritesNoOtherTable

\* learn() for 'supplier gmbh' changed the patterns of the row of 'Supplier GmbH'
\* and left the row of 'Parts AG' as it was
C30_Witness ==
    /\ Learned
    /\ last.vendor = "supplier gmbh"
    /\ Cardinality(ChangedRows) = 1
    /\ \A i \in ChangedRows : last.vendorsBefore[i].vendorName = "Supplier GmbH"
    /\ Len(vendor_memories) = 2
    /\ \E j \in 1..2 : /\ vendor_memories[j].vendorName = "Parts AG"
                       /\ vendor_memories[j] \in {last.vendorsBefore[i] : i \in 1..2}

\* the vendor memory that the last learn() resolved, before and after it
PatternsBefore ==
    LET found == findVendorMemory(last.vendorsBefore, last.vendor)
    IN  IF found = NoVendorMemory THEN <<>> ELSE found.patterns

PatternsAfter ==
    LET found == findVendorMemory(vendor_memories, last.vendor)
    IN  IF found = NoVendorMemory THEN <<>> ELSE found.patterns

InducedFields ==
    {last.induction.vendorRules[i].field : i \in 1..Len(last.induction.vendorRules)}

\* C20: after learn() induced a vendor rule for a field, the vendor memory
\* resolved for the correction's vendor is stored with that rule as the
\* pattern of the field, replacing an older one, and with its other patterns
\* unchanged; every induced correction rule is stored; and a later process()
\* recalls the stored vendor memory and correction memories.
C20_LearnedRulesPersisted ==
    /\ Learned =>
           /\ \A i \in 1..Len(last.induction.vendorRules) :
                  LET rule == last.induction.vendorRules[i]
                  IN  /\ rule.field \in DOMAIN PatternsAfter
                      /\ PatternsAfter[rule.field] = rule.pattern
           /\ DOMAIN PatternsAfter = DOMAIN PatternsBefore \cup InducedFields
           /\ \A f \in DOMAIN PatternsBefore \ InducedFields :
                  PatternsAfter[f] = PatternsBefore[f]
           /\ Len(correction_memories) =
                  Len(last.correctionsBefore) + Len(last.induction.correctionRules)
           /\ \A i \in 1..Len(last.induction.correctionRules) :
                  LET rule == last.induction.correctionRules[i]
                      row == correction_memories[Len(last.correctionsBefore) + i]
                  IN  /\ row.triggerCondition = rule.triggerCondition
                      /\ row.action = rule.action
                      /\ row.confidence = rule.confidence
    /\ Recalled =>
           /\ RecalledContext.vendorMemory =
                  findVendorMemory(vendor_memories, last.invoice.vendor.s)
           /\ RecalledContext.correctionMemories = correction_memories

\* a second learn() replaced the serviceDate pattern of the vendor by another one
C20_Witness ==
    /\ Learned
    /\ "serviceDate" \in InducedFields
    /\ "serviceDate" \in DOMAIN PatternsBefore
    /\ PatternsAfter["serviceDate"] # PatternsBefore["serviceDate"]

-----------------------------------------------------------------------------
(* Properties of calculateConfidence(), stated on the last call *)

CcUnproven == cc.resolution = NoResolution \/ cc.resolution.totalApplications = 0

CcDays == IF cc.lastUsed = NoLastUsed THEN 0 ELSE Abs(cc.now - cc.lastUsed)

RECURSIVE Times99Pow(_, _)
Times99Pow(x, d) == IF d = 0 THEN x ELSE (Times99Pow(x, d - 1) * 99) \div 100

CcClaimed(accepted) ==
    Max(1000,
        Times99Pow((6 * cc.baseConfidence
                    + (40000 * (accepted + 1)) \div (cc.resolution.totalApplications + 2)) \div 10,
                   CcDays))

\* C10: base x 0.8 without history; otherwise
\* max(0.1, (0.6 base + 0.4 (accepted+1)/(total+2)) x 0.99^days), which is
\* non-decreasing in acceptedCount at fixed base, totalApplications and lastUsed.
C10_ConfidenceFormula ==
    cc.called =>
        /\ CcUnproven => cc.result * 10 = cc.baseConfidence * 8
        /\ ~CcUnproven =>
               /\ cc.result = CcClaimed(cc.resolution.acceptedCount)
               /\ \A a \in 0..cc.resolution.totalApplications :
                      (a <= cc.resolution.acceptedCount =>
                           calculateConfidence(cc.baseConfidence,
                                               [cc.resolution EXCEPT !.acceptedCount = a],
                                               cc.lastUsed, cc.now) <= cc.result)
                      /\ (a >= cc.resolution.acceptedCount =>
                           calculateConfidence(cc.baseConfidence,
                                               [cc.resolution EXCEPT !.acceptedCount = a],
                                               cc.lastUsed, cc.now) >= cc.result)

\* a rule with history, used some days ago, whose confidence rises with acceptedCount
C10_Witness ==
    /\ cc.called
    /\ ~CcUnproven
    /\ CcDays > 0
    /\ cc.resolution.acceptedCount > 0
    /\ cc.result > calculateConfidence(cc.baseConfidence,
                                       [cc.resolution EXCEPT !.acceptedCount = 0],
                                       cc.lastUsed, cc.now)

====
